---- MODULE Spec2Model ----
(***************************************************************************)
(* Model of shortfin/python/array_host_ops.cc: the dtype promotion rule,   *)
(* the switch-to-template dispatch tables, the conversion kernel family    *)
(* (convert, round, ceil, floor, trunc), the elementwise binary operators  *)
(* (add, subtract, multiply, divide), the byte-width dispatch of data      *)
(* movement ops as used by transpose, and the struct bfloat16_t.           *)
(*                                                                         *)
(* Every host op is synchronous and keeps no state between calls, so the   *)
(* state machine has two positions: "idle" (the caller is about to call)   *)
(* and "done" (a call has returned or thrown), and a final one, "dead"     *)
(* (the process was killed inside a call).  One action models one whole    *)
(* call; outcome.events records, in program order, the allocations, the    *)
(* writes and the throw or kill that happened inside the call.             *)
(***************************************************************************)
EXTENDS Integers, Sequences, FiniteSets, TLC

VARIABLES
    pc,       \* "idle" | "done" | "dead"
    call,     \* the arguments of the call about to return / last made
    outcome   \* what the call returned or threw, and what it did on the way

vars == <<pc, call, outcome>>

(***************************************************************************)
(* DType descriptors.  The DType class is declared in shortfin/array,      *)
(* outside this file; the classification below is the one the              *)
(* specification gives (one class per dtype, a bit count, a signedness).   *)
(***************************************************************************)
None == "none"   \* std::nullopt for an optional DType

IntDTypes ==
    {"int8", "uint8", "int16", "uint16", "int32", "uint32", "int64", "uint64"}

FloatDTypes ==
    {"float8_e4m3fn", "float8_e4m3fnuz", "bfloat16", "float16", "float32",
     "float64"}

ComplexDTypes == {"complex64", "complex128"}

BoolDTypes == {"bool8"}

DTypes == BoolDTypes \cup IntDTypes \cup FloatDTypes \cup ComplexDTypes

\* A dtype that is not byte aligned (4 bits an element); only the data
\* movement dispatch is ever handed one.
SubByteDTypes == {"uint4"}

OptDTypes == DTypes \cup {None}

is_boolean(d) == d \in BoolDTypes
is_integer(d) == d \in IntDTypes
is_float(d) == d \in FloatDTypes
is_complex(d) == d \in ComplexDTypes

bit_count(d) ==
    CASE d \in SubByteDTypes -> 4
      [] d \in {"bool8", "int8", "uint8", "float8_e4m3fn", "float8_e4m3fnuz"} -> 8
      [] d \in {"int16", "uint16", "bfloat16", "float16"} -> 16
      [] d \in {"int32", "uint32", "float32"} -> 32
      [] d \in {"int64", "uint64", "float64", "complex64"} -> 64
      [] d = "complex128" -> 128

is_byte_aligned(d) == bit_count(d) % 8 = 0
dense_byte_count(d) == (bit_count(d) + 7) \div 8

\* iree_all_bits_set(numerical_type(), IREE_HAL_NUMERICAL_TYPE_INTEGER_UNSIGNED)
is_unsigned(d) == d \in {"uint8", "uint16", "uint32", "uint64"}

(***************************************************************************)
(* DTypePromotionRank and PromoteArithmeticTypes.                          *)
(***************************************************************************)
BooleanWeight == 1000
IntegerWeight == 2000
FloatWeight == 4000
ComplexWeight == 8000

\* The rank without the class weights: the bit count alone decides.
DTypePromotionRankUnweighted(dtype) ==
    LET rank == 1 IN rank + bit_count(dtype)

DTypePromotionRank(dtype) ==
    LET rank == 1
        weighted ==
            IF is_boolean(dtype) THEN rank * BooleanWeight
            ELSE IF is_integer(dtype) THEN rank * IntegerWeight
            ELSE IF is_float(dtype) THEN rank * FloatWeight
            ELSE IF is_complex(dtype) THEN rank * ComplexWeight
            ELSE rank
    IN  weighted + bit_count(dtype)

\* The result of a call that throws std::invalid_argument instead.
Throws == "throws"

\* The same switch with a default that leaves a 64-bit winner as it is.
NextSignedNoSaturate(promoted_dtype) ==
    CASE promoted_dtype \in {"uint8", "int8"} -> "int16"
      [] promoted_dtype \in {"uint16", "int16"} -> "int32"
      [] promoted_dtype \in {"uint32", "int32"} -> "int64"
      [] OTHER -> promoted_dtype

\* The switch over promoted_dtype taken on a signed/unsigned mismatch.
NextSigned(promoted_dtype) ==
    CASE promoted_dtype \in {"uint8", "int8"} -> "int16"
      [] promoted_dtype \in {"uint16", "int16"} -> "int32"
      [] promoted_dtype \in {"uint32", "int32"} -> "int64"
      [] OTHER -> "int64"

\* No comparison: the left side always wins.
RankWinnerAlwaysLeft(lhs_dtype, rhs_dtype) == lhs_dtype

\* The comparison with <= : the right side wins a tie.
RankWinnerRightOnTie(lhs_dtype, rhs_dtype) ==
    IF DTypePromotionRank(lhs_dtype) <= DTypePromotionRank(rhs_dtype)
    THEN rhs_dtype ELSE lhs_dtype

\* The comparison of the two ranks: the right side wins only when strictly
\* higher.
RankWinner(lhs_dtype, rhs_dtype) ==
    LET lhs_rank == DTypePromotionRank(lhs_dtype)
        rhs_rank == DTypePromotionRank(rhs_dtype)
    IN  IF lhs_rank < rhs_rank THEN rhs_dtype ELSE lhs_dtype

SignednessMismatch(lhs_dtype, rhs_dtype) ==
    LET lhs_unsigned == is_unsigned(lhs_dtype)
        rhs_unsigned == is_unsigned(rhs_dtype)
    IN  (lhs_unsigned \/ rhs_unsigned) /\ ~(lhs_unsigned /\ rhs_unsigned)

\* Both operands present, without the signed/unsigned escalation.
PromotePresentNoEscalation(lhs_dtype, rhs_dtype) ==
    RankWinner(lhs_dtype, rhs_dtype)

\* Both operands present.
PromotePresent(lhs_dtype, rhs_dtype) ==
    LET promoted_dtype == RankWinner(lhs_dtype, rhs_dtype) IN
    IF is_integer(promoted_dtype) /\ SignednessMismatch(lhs_dtype, rhs_dtype)
    THEN NextSigned(promoted_dtype)
    ELSE promoted_dtype

\* One operand absent, the bare scalar ranked as a 64-bit signed integer.
PromoteOneAbsentRanked(lhs_dtype, rhs_dtype) ==
    IF lhs_dtype = None THEN PromotePresent("int64", rhs_dtype)
    ELSE PromotePresent(lhs_dtype, "int64")

\* One operand absent: promote to the array type.
PromoteOneAbsent(lhs_dtype, rhs_dtype) ==
    IF lhs_dtype = None THEN rhs_dtype ELSE lhs_dtype

\* Both operands absent, defaulting to float32 instead of throwing.
PromoteBothAbsentDefault(lhs_dtype, rhs_dtype) == "float32"

\* Both operands absent: std::invalid_argument.
PromoteBothAbsent(lhs_dtype, rhs_dtype) == Throws

PromoteArithmeticTypes(lhs_dtype, rhs_dtype) ==
    IF lhs_dtype = None /\ rhs_dtype = None
    THEN PromoteBothAbsent(lhs_dtype, rhs_dtype)
    ELSE IF lhs_dtype = None \/ rhs_dtype = None
    THEN PromoteOneAbsent(lhs_dtype, rhs_dtype)
    ELSE PromotePresent(lhs_dtype, rhs_dtype)

(***************************************************************************)
(* The C++ element types the kernels are instantiated at, and the          *)
(* switch-to-template dispatch tables of each kernel family.               *)
(***************************************************************************)
Default == "default"   \* the default: label of a switch

CppTypes ==
    {"uint8_t", "int8_t", "uint16_t", "int16_t", "uint32_t", "int32_t",
     "uint64_t", "int64_t", "float", "double", "half_float::half",
     "bfloat16_t", "f8e4m3fnuz_t", "f8e4m3fn_t"}

CppIntTypes ==
    {"uint8_t", "int8_t", "uint16_t", "int16_t", "uint32_t", "int32_t",
     "uint64_t", "int64_t"}

cpp_is_integer(t) == t \in CppIntTypes
cpp_is_float(t) == t \in CppTypes \ CppIntTypes

cpp_bits(t) ==
    CASE t \in {"uint8_t", "int8_t", "f8e4m3fnuz_t", "f8e4m3fn_t"} -> 8
      [] t \in {"uint16_t", "int16_t", "half_float::half", "bfloat16_t"} -> 16
      [] t \in {"uint32_t", "int32_t", "float"} -> 32
      [] t \in {"uint64_t", "int64_t", "double"} -> 64

cpp_is_unsigned(t) == t \in {"uint8_t", "uint16_t", "uint32_t", "uint64_t"}

\* switch (input.dtype()) of ConvertFunctor::Invoke
ConvertInputEltTy(d) ==
    CASE d = "float8_e4m3fnuz" -> "f8e4m3fnuz_t"
      [] d = "float8_e4m3fn" -> "f8e4m3fn_t"
      [] d = "float16" -> "half_float::half"
      [] d = "bfloat16" -> "bfloat16_t"
      [] d = "float32" -> "float"
      [] d = "float64" -> "double"
      [] d = "uint8" -> "uint8_t"
      [] d = "int8" -> "int8_t"
      [] d = "uint16" -> "uint16_t"
      [] d = "int16" -> "int16_t"
      [] d = "uint32" -> "uint32_t"
      [] d = "int32" -> "uint32_t"
      [] d = "uint64" -> "uint64_t"
      [] d = "int64" -> "int64_t"
      [] OTHER -> Default

\* The store switch without its float64 case.
ConvertStoreEltTyNoDouble(d) ==
    CASE d = "float16" -> "half_float::half"
      [] d = "float8_e4m3fnuz" -> "f8e4m3fnuz_t"
      [] d = "float8_e4m3fn" -> "f8e4m3fn_t"
      [] d = "bfloat16" -> "bfloat16_t"
      [] d = "float32" -> "float"
      [] d = "uint8" -> "uint8_t"
      [] d = "int8" -> "int8_t"
      [] d = "uint16" -> "uint16_t"
      [] d = "int16" -> "int16_t"
      [] d = "uint32" -> "uint32_t"
      [] d = "int32" -> "int32_t"
      [] d = "uint64" -> "uint64_t"
      [] d = "int64" -> "int64_t"
      [] OTHER -> Default

\* switch (dtype) of the compute lambda of ConvertFunctor::Invoke
ConvertStoreEltTy(d) ==
    CASE d = "float16" -> "half_float::half"
      [] d = "float8_e4m3fnuz" -> "f8e4m3fnuz_t"
      [] d = "float8_e4m3fn" -> "f8e4m3fn_t"
      [] d = "bfloat16" -> "bfloat16_t"
      [] d = "float32" -> "float"
      [] d = "float64" -> "double"
      [] d = "uint8" -> "uint8_t"
      [] d = "int8" -> "int8_t"
      [] d = "uint16" -> "uint16_t"
      [] d = "int16" -> "int16_t"
      [] d = "uint32" -> "uint32_t"
      [] d = "int32" -> "int32_t"
      [] d = "uint64" -> "uint64_t"
      [] d = "int64" -> "int64_t"
      [] OTHER -> Default

\* switch (input.dtype()) of ConvertRoundFunctor::Invoke
RoundInputEltTy(d) ==
    CASE d = "float8_e4m3fnuz" -> "f8e4m3fnuz_t"
      [] d = "float8_e4m3fn" -> "f8e4m3fn_t"
      [] d = "float16" -> "half_float::half"
      [] d = "bfloat16" -> "bfloat16_t"
      [] d = "float32" -> "float"
      [] OTHER -> Default

\* The store switch with a 64-bit case added.
RoundStoreEltTyWithInt64(d) ==
    CASE d = "uint8" -> "uint8_t"
      [] d = "int8" -> "int8_t"
      [] d = "uint16" -> "uint16_t"
      [] d = "int16" -> "int16_t"
      [] d = "uint32" -> "uint32_t"
      [] d = "int32" -> "int32_t"
      [] d = "int64" -> "int64_t"
      [] OTHER -> Default

\* switch (dtype) of the compute lambda of ConvertRoundFunctor::Invoke
RoundStoreEltTy(d) ==
    CASE d = "uint8" -> "uint8_t"
      [] d = "int8" -> "int8_t"
      [] d = "uint16" -> "uint16_t"
      [] d = "int16" -> "int16_t"
      [] d = "uint32" -> "uint32_t"
      [] d = "int32" -> "int32_t"
      [] OTHER -> Default

\* ConvertCeilFunctor::Invoke
CeilInputEltTy(d) ==
    CASE d = "float8_e4m3fnuz" -> "f8e4m3fnuz_t"
      [] d = "float8_e4m3fn" -> "f8e4m3fn_t"
      [] d = "float16" -> "half_float::half"
      [] d = "bfloat16" -> "bfloat16_t"
      [] d = "float32" -> "float"
      [] OTHER -> Default

CeilStoreEltTy(d) ==
    CASE d = "uint8" -> "uint8_t"
      [] d = "int8" -> "int8_t"
      [] d = "uint16" -> "uint16_t"
      [] d = "int16" -> "int16_t"
      [] d = "uint32" -> "uint32_t"
      [] d = "int32" -> "int32_t"
      [] OTHER -> Default

\* ConvertFloorFunctor::Invoke
FloorInputEltTy(d) ==
    CASE d = "float8_e4m3fnuz" -> "f8e4m3fnuz_t"
      [] d = "float8_e4m3fn" -> "f8e4m3fn_t"
      [] d = "float16" -> "half_float::half"
      [] d = "bfloat16" -> "bfloat16_t"
      [] d = "float32" -> "float"
      [] OTHER -> Default

FloorStoreEltTy(d) ==
    CASE d = "uint8" -> "uint8_t"
      [] d = "int8" -> "int8_t"
      [] d = "uint16" -> "uint16_t"
      [] d = "int16" -> "int16_t"
      [] d = "uint32" -> "uint32_t"
      [] d = "int32" -> "int32_t"
      [] OTHER -> Default

\* The input switch with a float64 case added.
TruncInputEltTyWithDouble(d) ==
    CASE d = "float8_e4m3fnuz" -> "f8e4m3fnuz_t"
      [] d = "float8_e4m3fn" -> "f8e4m3fn_t"
      [] d = "float16" -> "half_float::half"
      [] d = "bfloat16" -> "bfloat16_t"
      [] d = "float32" -> "float"
      [] d = "float64" -> "double"
      [] OTHER -> Default

\* ConvertTruncFunctor::Invoke
TruncInputEltTy(d) ==
    CASE d = "float8_e4m3fnuz" -> "f8e4m3fnuz_t"
      [] d = "float8_e4m3fn" -> "f8e4m3fn_t"
      [] d = "float16" -> "half_float::half"
      [] d = "bfloat16" -> "bfloat16_t"
      [] d = "float32" -> "float"
      [] OTHER -> Default

TruncStoreEltTy(d) ==
    CASE d = "uint8" -> "uint8_t"
      [] d = "int8" -> "int8_t"
      [] d = "uint16" -> "uint16_t"
      [] d = "int16" -> "int16_t"
      [] d = "uint32" -> "uint32_t"
      [] d = "int32" -> "int32_t"
      [] OTHER -> Default

\* The dispatch switch without its int64 case.
ElementwiseEltTyNoInt64(d) ==
    CASE d = "float8_e4m3fnuz" -> "f8e4m3fnuz_t"
      [] d = "float8_e4m3fn" -> "f8e4m3fn_t"
      [] d = "float16" -> "half_float::half"
      [] d = "bfloat16" -> "bfloat16_t"
      [] d = "float32" -> "float"
      [] d = "float64" -> "double"
      [] d = "uint8" -> "uint8_t"
      [] d = "int8" -> "int8_t"
      [] d = "uint16" -> "uint16_t"
      [] d = "int16" -> "int16_t"
      [] d = "uint32" -> "uint32_t"
      [] d = "int32" -> "uint32_t"
      [] d = "uint64" -> "uint64_t"
      [] OTHER -> Default

\* switch (dtype) of ElementwiseOperation
ElementwiseEltTy(d) ==
    CASE d = "float8_e4m3fnuz" -> "f8e4m3fnuz_t"
      [] d = "float8_e4m3fn" -> "f8e4m3fn_t"
      [] d = "float16" -> "half_float::half"
      [] d = "bfloat16" -> "bfloat16_t"
      [] d = "float32" -> "float"
      [] d = "float64" -> "double"
      [] d = "uint8" -> "uint8_t"
      [] d = "int8" -> "int8_t"
      [] d = "uint16" -> "uint16_t"
      [] d = "int16" -> "int16_t"
      [] d = "uint32" -> "uint32_t"
      [] d = "int32" -> "uint32_t"
      [] d = "uint64" -> "uint64_t"
      [] d = "int64" -> "int64_t"
      [] OTHER -> Default

\* The result of SF_MOVEMENT_OP_SWITCH when it throws.
NotByteAligned == "not byte aligned"
BadByteCount == "bad byte count"

\* The switch taken on the byte count alone, without the alignment test.
MovementEltTyUnchecked(byte_aligned, byte_count) ==
    CASE byte_count = 1 -> "uint8_t"
      [] byte_count = 2 -> "uint16_t"
      [] byte_count = 4 -> "uint32_t"
      [] byte_count = 8 -> "uint64_t"
      [] OTHER -> BadByteCount

\* SF_MOVEMENT_OP_SWITCH(dtype), on dtype.is_byte_aligned() and
\* dtype.dense_byte_count().
MovementEltTy(byte_aligned, byte_count) ==
    IF ~byte_aligned THEN NotByteAligned
    ELSE CASE byte_count = 1 -> "uint8_t"
           [] byte_count = 2 -> "uint16_t"
           [] byte_count = 4 -> "uint32_t"
           [] byte_count = 8 -> "uint64_t"
           [] OTHER -> BadByteCount

ConvertOps == {"convert", "round", "ceil", "floor", "trunc"}
NearestOps == {"round", "ceil", "floor", "trunc"}
ElementwiseOps == {"add", "subtract", "multiply", "divide"}

\* The functor GenericElementwiseConvert is bound to under each python name.
InputEltTy(op, d) ==
    CASE op = "convert" -> ConvertInputEltTy(d)
      [] op = "round" -> RoundInputEltTy(d)
      [] op = "ceil" -> CeilInputEltTy(d)
      [] op = "floor" -> FloorInputEltTy(d)
      [] op = "trunc" -> TruncInputEltTy(d)

StoreEltTy(op, d) ==
    CASE op = "convert" -> ConvertStoreEltTy(d)
      [] op = "round" -> RoundStoreEltTy(d)
      [] op = "ceil" -> CeilStoreEltTy(d)
      [] op = "floor" -> FloorStoreEltTy(d)
      [] op = "trunc" -> TruncStoreEltTy(d)

(***************************************************************************)
(* Element storage.  An integer element is its object representation: a    *)
(* little-endian sequence of bytes, read as two's complement under the     *)
(* signedness of the C++ type a kernel maps it at (map_xtensor<EltTy>).    *)
(* Arithmetic is done on that representation, so every width up to 64 bits *)
(* keeps its own wrap-around.                                              *)
(***************************************************************************)
RECURSIVE Enc(_, _)
\* The n-byte two's complement representation of the integer v.
Enc(v, n) == IF n = 0 THEN <<>> ELSE <<v % 256>> \o Enc(v \div 256, n - 1)

Zero(n) == [i \in 1..n |-> 0]

IsNegative(a, ty) == ~cpp_is_unsigned(ty) /\ a[Len(a)] >= 128

RECURSIVE AddC(_, _, _)
\* a + b + carry modulo 2^(8 * Len(a))
AddC(a, b, carry) ==
    IF a = <<>> THEN <<>>
    ELSE LET s == a[1] + b[1] + carry
         IN  <<s % 256>> \o AddC(Tail(a), Tail(b), s \div 256)

Not(a) == [i \in 1..Len(a) |-> 255 - a[i]]
Neg(a) == AddC(Not(a), Zero(Len(a)), 1)
Sub(a, b) == AddC(a, Not(b), 1)
Shl1(a, bit) == AddC(a, a, bit)
Bit(a, i) == (a[(i \div 8) + 1] \div (2 ^ (i % 8))) % 2

RECURSIVE GeqAt(_, _, _)
GeqAt(a, b, i) ==
    IF i = 0 THEN TRUE
    ELSE IF a[i] # b[i] THEN a[i] > b[i]
    ELSE GeqAt(a, b, i - 1)

\* a >= b as unsigned numbers of the same length
Geq(a, b) == GeqAt(a, b, Len(a))

RECURSIVE MulSmall(_, _, _)
\* a * k + carry modulo 2^(8 * Len(a)), for one byte k
MulSmall(a, k, carry) ==
    IF a = <<>> THEN <<>>
    ELSE LET s == a[1] * k + carry
         IN  <<s % 256>> \o MulSmall(Tail(a), k, s \div 256)

RECURSIVE Mul(_, _)
\* a * b modulo 2^(8 * Len(a)): one partial product per byte of b
Mul(a, b) ==
    IF a = <<>> THEN <<>>
    ELSE AddC(MulSmall(a, b[1], 0),
              <<0>> \o Mul(SubSeq(a, 1, Len(a) - 1), Tail(b)), 0)

\* One step of binary long division.  st = <<q, r, i>>: the quotient and the
\* remainder so far and the bit of a to take next.  That bit is shifted into
\* the remainder, and the divisor subtracted when it fits; d and r carry one
\* extra byte so that 2r+1 fits.
UDivStep(a, d, st) ==
    LET r2 == Shl1(st[2], Bit(a, st[3]))
        fits == Geq(r2, d)
    IN  <<Shl1(st[1], IF fits THEN 1 ELSE 0),
          IF fits THEN Sub(r2, d) ELSE r2,
          st[3] - 1>>

RECURSIVE UDivSteps(_, _, _, _)
\* Up to n steps from st, stopping when the bits of a are used up (the count
\* is halved so that the evaluation stays shallow).
UDivSteps(a, d, n, st) ==
    IF st[3] < 0 THEN st
    ELSE IF n = 1 THEN UDivStep(a, d, st)
    ELSE UDivSteps(a, d, n - (n \div 2), UDivSteps(a, d, n \div 2, st))

\* floor(a / b) of two unsigned numbers, b # 0
UDiv(a, b) ==
    UDivSteps(a, b \o <<0>>, 8 * Len(a),
              <<Zero(Len(a)), Zero(Len(a) + 1), 8 * Len(a) - 1>>)[1]

\* What an integer division the language leaves undefined does in the
\* compiled kernel: the divide instruction raises SIGFPE and the process is
\* killed.
SIGFPE == "SIGFPE"

\* The most negative value of a signed type, and -1.
IsMin(a) == a = [i \in 1..Len(a) |-> IF i = Len(a) THEN 128 ELSE 0]
IsMinusOne(a) == a = [i \in 1..Len(a) |-> 255]

\* a / b is undefined at ty: a zero divisor, or the quotient MIN / -1 at a
\* signed type as wide as int or wider (int8_t and int16_t operands are
\* promoted to int, where the quotient exists).
DivUndefined(a, b, ty) ==
    \/ b = Zero(Len(b))
    \/ ~cpp_is_unsigned(ty) /\ cpp_bits(ty) >= 32 /\ IsMin(a) /\ IsMinusOne(b)

\* a / b of the C++ type ty: the quotient truncated toward zero, converted
\* back to ty; SIGFPE where the division is undefined.
DivAt(a, b, ty) ==
    IF DivUndefined(a, b, ty) THEN SIGFPE
    ELSE IF cpp_is_unsigned(ty) THEN UDiv(a, b)
    ELSE LET ma == IF IsNegative(a, ty) THEN Neg(a) ELSE a
             mb == IF IsNegative(b, ty) THEN Neg(b) ELSE b
             q == UDiv(ma, mb)
         IN  IF IsNegative(a, ty) # IsNegative(b, ty) THEN Neg(q) ELSE q

\* static_cast between two integer types: truncation, or extension by the
\* sign of the source type.
CastBits(a, from, to) ==
    LET n == cpp_bits(to) \div 8
        fill == IF IsNegative(a, from) THEN 255 ELSE 0
    IN  [i \in 1..n |-> IF i <= Len(a) THEN a[i] ELSE fill]

(***************************************************************************)
(* Elements and arrays.  An element is either a byte representation        *)
(* (k = "bits") or, for values whose arithmetic is done by float types     *)
(* and library casts outside this file, an uninterpreted term (k = "sym"): *)
(* <<"lit", v>>, <<"cast", to, from, e>>, <<op, ty, e>>, <<op, ty, e1, e2>>*)
(* An array that was allocated and not yet written holds k = "uninit".     *)
(***************************************************************************)
BitsElem(b) == [k |-> "bits", b |-> b, t |-> <<>>]
SymElem(t) == [k |-> "sym", b |-> <<>>, t |-> t]
UninitElem == [k |-> "uninit", b |-> <<>>, t |-> <<>>]
\* The element whose computation killed the process.
TrapElem == [k |-> "trap", b |-> <<>>, t |-> <<>>]

NoArray ==
    [present |-> FALSE, id |-> None, dtype |-> None, data |-> <<>>,
     visible |-> FALSE, device |-> None]

\* device_array::for_host(device, shape, dtype, device_visible)
for_host(device, shape, dtype, device_visible, id) ==
    [present |-> TRUE, id |-> id, dtype |-> dtype,
     data |-> [i \in 1..shape |-> UninitElem],
     visible |-> device_visible, device |-> device]

AllocEvent(a) ==
    [ev |-> "alloc", id |-> a.id, dtype |-> a.dtype, shape |-> Len(a.data),
     device |-> a.device, visible |-> a.visible]
WriteEvent(a) == [ev |-> "write", id |-> a.id]
\* map_xtensor<EltTy>() / map_xtensor_w<EltTy>() of a data movement kernel.
MapEvent(a, EltTy) == [ev |-> "map", id |-> a.id, elt |-> EltTy]
ThrowEvent == [ev |-> "throw", id |-> None]
KillEvent == [ev |-> "kill", id |-> None]

\* The messages of the std::invalid_argument exceptions thrown.
MsgDTypeOutMismatch == "if both dtype and out are specified, they must match"
MsgConvertInvalidOutput == "Invalid output dtype for convert op"
MsgNearestUnsupported == "Unsupported dtype({}) for converting nearest integer op"
MsgNearestInvalidOutput == "Invalid output dtype for converting nearest integer op"
MsgNoArrayOperand ==
    "Elementwise operators require at least one argument to be a device_array"
MsgElementwiseUnsupported == "Unsupported dtype({}) for in elementwise op"
MsgMovementNotAligned ==
    "data movement ops are only defined for byte aligned dtypes"
MsgMovementSize ==
    "data movement ops are only defined for dtypes of size 1, 2, 4, 8"

NoError == "no error"

\* What a call produced: status "ok" with the returned array, or "error" with
\* the message and the dtype formatted into it (None when it has no {}).
\* dtype is the dtype the call decided on (None when it decided none),
\* out_after the caller's out buffer after the call, temps the intermediate
\* arrays the call allocated for itself.
Returned(ret, out_after, evs) ==
    [status |-> "ok", msg |-> NoError, msg_dtype |-> None, dtype |-> None,
     ret |-> ret, out_after |-> out_after, temps |-> <<>>, events |-> evs]

Thrown(msg, msg_dtype, out_after, evs) ==
    [status |-> "error", msg |-> msg, msg_dtype |-> msg_dtype, dtype |-> None,
     ret |-> NoArray, out_after |-> out_after, temps |-> <<>>,
     events |-> evs \o <<ThrowEvent>>]

(***************************************************************************)
(* Floats at the bit level: float is IEEE-754 binary32, double is         *)
(* binary64, half_float::half is binary16 and bfloat16_t, f8e4m3fn_t and   *)
(* f8e4m3fnuz_t are the structs of this file.  A float is its four bytes,  *)
(* a double its eight, a half or a bfloat16_t its two and an fp8 value its *)
(* one, least significant first.  The two fp8 structs keep their byte by   *)
(* calling the iree_math routines, which are declared outside this file:   *)
(* they are modelled as the specification describes them (4 exponent bits, *)
(* 3 mantissa bits, finite only; the widening is exact and the narrowing   *)
(* gives the nearest grid point).                                          *)
(***************************************************************************)
BitFloatTypes ==
    {"float", "double", "bfloat16_t", "half_float::half", "f8e4m3fn_t",
     "f8e4m3fnuz_t"}

\* A conversion whose result this file and the value formats do not fix.
Undetermined == <<>>

F32Sign(f) == f[4] \div 128
F32Exp(f) == (f[4] % 128) * 2 + (f[3] \div 128)
F32Mant(f) == (f[3] % 128) * 65536 + f[2] * 256 + f[1]

F32Bits(s, e, m) ==
    <<m % 256, (m \div 256) % 256, (e % 2) * 128 + (m \div 65536),
      s * 128 + (e \div 2)>>

F16Sign(h) == h[2] \div 128
F16Exp(h) == (h[2] % 128) \div 4
F16Mant(h) == (h[2] % 4) * 256 + h[1]

F16Bits(s, e, m) == <<m % 256, s * 128 + e * 4 + (m \div 256)>>

\* The position of the highest set bit of m, m > 0.
RECURSIVE TopBit(_)
TopBit(m) == IF m < 2 THEN 0 ELSE 1 + TopBit(m \div 2)

\* half_float::half::operator float(): every binary16 number is a binary32
\* number, so the widening is exact.  A NaN keeps its sign and its payload
\* and comes out quiet.
half_to_float(h) ==
    LET s == F16Sign(h)
        e == F16Exp(h)
        m == F16Mant(h)
    IN  IF e = 31
        THEN IF m = 0 THEN F32Bits(s, 255, 0)
             ELSE F32Bits(s, 255, ((m * 8192) % 4194304) + 4194304)
        ELSE IF e > 0 THEN F32Bits(s, e + 112, m * 8192)
        ELSE IF m = 0 THEN F32Bits(s, 0, 0)
        ELSE LET p == TopBit(m)
             IN  F32Bits(s, 103 + p, (m - 2 ^ p) * 2 ^ (23 - p))

\* half_float::half(float): the binary16 value equal to f when there is
\* one; how the library rounds any other f (and what it keeps of a NaN) is
\* not fixed by this file.
float_to_half(f) ==
    LET s == F32Sign(f)
        e == F32Exp(f)
        m == F32Mant(f)
        sig == 8388608 + m
        shift == 2 ^ (126 - e)
    IN  IF e = 0 /\ m = 0 THEN F16Bits(s, 0, 0)
        ELSE IF e = 255 /\ m = 0 THEN F16Bits(s, 31, 0)
        ELSE IF e >= 113 /\ e <= 142 /\ m % 8192 = 0
        THEN F16Bits(s, e - 112, m \div 8192)
        ELSE IF e >= 103 /\ e <= 112 /\ sig % shift = 0
        THEN F16Bits(s, 0, sig \div shift)
        ELSE Undetermined

\* A double is sign, 11 exponent bits and 52 mantissa bits; the mantissa is
\* kept as its upper 23 bits mh and its lower 29 bits ml.
F64Sign(d) == d[8] \div 128
F64Exp(d) == (d[8] % 128) * 16 + (d[7] \div 16)
F64MantHigh(d) ==
    (d[7] % 16) * 524288 + d[6] * 2048 + d[5] * 8 + (d[4] \div 32)
F64MantLow(d) == (d[4] % 32) * 16777216 + d[3] * 65536 + d[2] * 256 + d[1]

F64Bits(s, e, mh, ml) ==
    <<ml % 256, (ml \div 256) % 256, (ml \div 65536) % 256,
      (mh % 8) * 32 + (ml \div 16777216), (mh \div 8) % 256,
      (mh \div 2048) % 256, (e % 16) * 16 + (mh \div 524288),
      s * 128 + (e \div 16)>>

\* static_cast<double>(float): every binary32 number is a binary64 number,
\* so the widening is exact.  A NaN keeps its sign and its payload and comes
\* out quiet.
float_to_double(f) ==
    LET s == F32Sign(f)
        e == F32Exp(f)
        m == F32Mant(f)
    IN  IF e = 255
        THEN IF m = 0 THEN F64Bits(s, 2047, 0, 0)
             ELSE F64Bits(s, 2047, (m % 4194304) + 4194304, 0)
        ELSE IF e > 0 THEN F64Bits(s, e + 896, m, 0)
        ELSE IF m = 0 THEN F64Bits(s, 0, 0, 0)
        ELSE LET p == TopBit(m)
             IN  F64Bits(s, 874 + p, (m - 2 ^ p) * 2 ^ (23 - p), 0)

\* static_cast<float>(double): the binary32 value nearest to d, ties to the
\* even mantissa (the rounding the hardware conversion does in the default
\* rounding mode); beyond the largest float it is an infinity.
double_to_float(d) ==
    LET s == F64Sign(d)
        e == F64Exp(d)
        mh == F64MantHigh(d)
        ml == F64MantLow(d)
        \* a normal result: exponent and mantissa as one number
        base == (e - 896) * 8388608 + mh
        rn == IF ml > 268435456 \/ (ml = 268435456 /\ mh % 2 = 1)
              THEN base + 1 ELSE base
        \* a subnormal result: the 24-bit significand shifted right
        sig == 8388608 + mh
        shift == 897 - e
        q == sig \div 2 ^ shift
        rem == sig % 2 ^ shift
        half == 2 ^ (shift - 1)
        rs == IF rem > half \/ (rem = half /\ (ml # 0 \/ q % 2 = 1))
              THEN q + 1 ELSE q
    IN  IF e = 2047
        THEN IF mh = 0 /\ ml = 0 THEN F32Bits(s, 255, 0)
             ELSE F32Bits(s, 255, (mh % 4194304) + 4194304)
        ELSE IF e > 1150 THEN F32Bits(s, 255, 0)
        ELSE IF e >= 897 THEN F32Bits(s, rn \div 8388608, rn % 8388608)
        ELSE IF e = 0 \/ shift > 25 THEN F32Bits(s, 0, 0)
        ELSE F32Bits(s, rs \div 8388608, rs % 8388608)

\* The float an fp8 code v stands for, with exponent bias bias: 1.m * 2^(e -
\* bias) for an exponent field e > 0 and m * 2^(1 - bias - 3) for e = 0.
F8ToF32(v, bias) ==
    LET s == v \div 128
        e == (v % 128) \div 8
        m == v % 8
    IN  IF e > 0 THEN F32Bits(s, e - bias + 127, m * 1048576)
        ELSE IF m = 0 THEN F32Bits(s, 0, 0)
        ELSE LET p == TopBit(m)
             IN  F32Bits(s, 125 - bias + p, (m - 2 ^ p) * 2 ^ (23 - p))

\* The fp8 code (sign apart) of the grid point nearest to the magnitude of
\* the float f, for exponent bias bias and largest finite code maxcode.
\* What the routines do with a float halfway between two grid points, with
\* one beyond the largest finite value, with an infinity or with a NaN is
\* not described.
F32ToF8(f, bias, maxcode) ==
    LET e == F32Exp(f)
        m == F32Mant(f)
        sig == 8388608 + m
        u == e - 127 + bias    \* the exponent field of a normal result
        shift == IF u >= 1 THEN 20 ELSE 21 - u
        q == IF u >= 1 THEN u * 8 + (m \div 1048576) ELSE sig \div 2 ^ shift
        rem == IF u >= 1 THEN m % 1048576 ELSE sig % 2 ^ shift
        half == 2 ^ (shift - 1)
        code == IF rem < half THEN q ELSE q + 1
    IN  IF e = 255 THEN Undetermined
        ELSE IF e = 0 \/ u < -4 THEN <<0>>
        ELSE IF rem = half THEN Undetermined
        ELSE IF code > maxcode THEN Undetermined
        ELSE <<code>>

\* iree_math_f8e4m3fn_to_f32: bias 7, no infinities, S.1111.111 is NaN.
iree_math_f8e4m3fn_to_f32(v) ==
    IF v[1] % 128 = 127 THEN Undetermined ELSE F8ToF32(v[1], 7)

\* iree_math_f8e4m3fnuz_to_f32: bias 8, no infinities, no negative zero,
\* 0x80 is NaN.
iree_math_f8e4m3fnuz_to_f32(v) ==
    IF v[1] = 128 THEN Undetermined ELSE F8ToF32(v[1], 8)

\* iree_math_f32_to_f8e4m3fn
iree_math_f32_to_f8e4m3fn(f) ==
    LET code == F32ToF8(f, 7, 126)
    IN  IF code = Undetermined THEN Undetermined
        ELSE <<F32Sign(f) * 128 + code[1]>>

\* iree_math_f32_to_f8e4m3fnuz
iree_math_f32_to_f8e4m3fnuz(f) ==
    LET code == F32ToF8(f, 8, 127)
    IN  IF code = Undetermined THEN Undetermined
        ELSE IF code[1] = 0 THEN <<0>>
        ELSE <<F32Sign(f) * 128 + code[1]>>

\* A narrowing that keeps the low half of the float.
bfloat16_t_from_float_low(f) == SubSeq(f, 1, 2)

\* A narrowing that rounds to the nearest bfloat16 (ties to even) instead.
bfloat16_t_from_float_nearest(f) ==
    LET low == f[2] * 256 + f[1]
        up == f[4] * 256 + f[3]
        odd == f[3] % 2
        r == IF low > 32768 \/ (low = 32768 /\ odd = 1) THEN up + 1 ELSE up
    IN  <<r % 256, (r \div 256) % 256>>

\* bfloat16_t(float f): temp = bit_cast<uint32_t>(f); value = temp >> 16.
bfloat16_t_from_float(f) == SubSeq(f, 3, 4)

\* A widening that puts the value in the low half of the float.
bfloat16_t_to_float_low(v) == v \o <<0, 0>>

\* bfloat16_t::operator float(): temp = uint32_t(value) << 16.
bfloat16_t_to_float(v) == <<0, 0>> \o v

\* static_cast<float>(x) for x of a float type: operator float of the
\* structs, the narrowing of a double.
ToFloat(b, from) ==
    CASE from = "float" -> b
      [] from = "double" -> double_to_float(b)
      [] from = "bfloat16_t" -> bfloat16_t_to_float(b)
      [] from = "half_float::half" -> half_to_float(b)
      [] from = "f8e4m3fn_t" -> iree_math_f8e4m3fn_to_f32(b)
      [] from = "f8e4m3fnuz_t" -> iree_math_f8e4m3fnuz_to_f32(b)

\* static_cast<to>(f) for a float f and a float type: the constructors of
\* the structs taking a float, the widening to a double.
FromFloat(f, to) ==
    CASE to = "float" -> f
      [] to = "double" -> float_to_double(f)
      [] to = "bfloat16_t" -> bfloat16_t_from_float(f)
      [] to = "half_float::half" -> float_to_half(f)
      [] to = "f8e4m3fn_t" -> iree_math_f32_to_f8e4m3fn(f)
      [] to = "f8e4m3fnuz_t" -> iree_math_f32_to_f8e4m3fnuz(f)

\* static_cast<to>(x) between two different float types.  The structs
\* convert to and from every other type through float: operator float on
\* the way out, and on the way in the constructor taking a float, which
\* bfloat16_t and the fp8 structs reach from a double by
\* static_cast<float>(value).  How half_float::half rounds a double that is
\* not a float is the library's matter.
FloatCastVia(f, b, from, to) ==
    IF f = Undetermined THEN Undetermined
    ELSE IF from = "double" /\ to = "half_float::half"
            /\ float_to_double(f) # b
    THEN Undetermined
    ELSE FromFloat(f, to)

FloatCast(b, from, to) == FloatCastVia(ToFloat(b, from), b, from, to)

\* The process was killed by a signal while the call was assigning the
\* result: nothing is returned and no array outlives the call.
Killed(evs) ==
    [status |-> "killed", msg |-> NoError, msg_dtype |-> None, dtype |-> None,
     ret |-> NoArray, out_after |-> NoArray, temps |-> <<>>,
     events |-> evs \o <<KillEvent>>]

\* xt::cast<to>(x) on one element mapped at type from.  A cast between an
\* integer and a float type, and a float cast whose result is not fixed,
\* stay uninterpreted.
CastElem(r, e, from, to) ==
    IF r = Undetermined THEN SymElem(<<"cast", to, from, e>>)
    ELSE BitsElem(r)

StaticCast(e, from, to) ==
    IF from = to THEN e
    ELSE IF e.k = "bits" /\ cpp_is_integer(from) /\ cpp_is_integer(to)
    THEN BitsElem(CastBits(e.b, from, to))
    ELSE IF e.k = "bits" /\ from \in BitFloatTypes /\ to \in BitFloatTypes
    THEN CastElem(FloatCast(e.b, from, to), e, from, to)
    ELSE SymElem(<<"cast", to, from, e>>)

\* xt::round / xt::ceil / xt::floor / xt::trunc on one element of type ty.
Nearest(op, e, ty) == SymElem(<<op, ty, e>>)

\* The dtype the unsupported-input message of the conversion functors
\* formats: the functor's dtype parameter (the output dtype).
UnsupportedMsgDType(input, dtype) == dtype

\* A store switch that maps the output and writes its first element before it
\* reaches its default: label.
StoreDefaultAfterWrite(msg, out) ==
    Thrown(msg, None, [out EXCEPT !.data[1] = UninitElem], <<WriteEvent(out)>>)

\* The default: label of the store switch of a compute lambda: nothing was
\* mapped for writing yet.
StoreDefault(msg, out) == Thrown(msg, None, out, <<>>)

\* ConvertFunctor::Invoke and Convert{Round,Ceil,Floor,Trunc}Functor::Invoke
Invoke(op, input, dtype, out) ==
    LET EltTy == InputEltTy(op, input.dtype)
        store == StoreEltTy(op, dtype)
        written(data) ==
            LET o == [out EXCEPT !.data = data]
            IN  Returned(o, o, <<WriteEvent(out)>>)
    IN  IF EltTy = Default
        THEN Thrown(MsgNearestUnsupported, UnsupportedMsgDType(input, dtype),
                    out, <<>>)
        ELSE IF op = "convert"
        THEN IF store = Default
             THEN StoreDefault(MsgConvertInvalidOutput, out)
             ELSE written([i \in 1..Len(input.data) |->
                             StaticCast(input.data[i], EltTy, store)])
        ELSE IF input.dtype = dtype
        THEN written([i \in 1..Len(input.data) |->
                        Nearest(op, input.data[i], EltTy)])
        ELSE IF store = Default
        THEN StoreDefault(MsgNearestInvalidOutput, out)
        ELSE written([i \in 1..Len(input.data) |->
                        StaticCast(Nearest(op, input.data[i], EltTy),
                                   EltTy, store)])

\* The decision with the out buffer left out of it.
DecidedDTypeInputFirst(input, dtype, out) ==
    IF dtype = None THEN input.dtype ELSE dtype

\* The dtype decided by the argument check of GenericElementwiseConvert.
DecidedDType(input, dtype, out) ==
    IF dtype = None
    THEN (IF out.present THEN out.dtype ELSE input.dtype)
    ELSE dtype

\* An argument check that lets every dtype / out combination through.
DTypeOutMismatchNever(dtype, out) == FALSE

\* if (out && out->dtype() != dtype) on the branch where dtype was given.
DTypeOutMismatch(dtype, out) ==
    dtype # None /\ out.present /\ out.dtype # dtype

\* An output step that allocates whether or not the caller gave a buffer.
OutputAlwaysAllocated(input, decided, out, device_visible, next_id) ==
    for_host(input.device, Len(input.data), decided, device_visible, next_id)

\* if (!out) out.emplace(device_array::for_host(...)): the array the functor
\* writes and the call returns.
OutputFor(input, decided, out, device_visible, next_id) ==
    IF out.present THEN out
    ELSE for_host(input.device, Len(input.data), decided, device_visible,
                  next_id)

\* GenericElementwiseConvert<ConvertFunc>; next_id names the array it may
\* allocate.
GenericElementwiseConvert(op, input, dtype, out, device_visible, next_id) ==
    LET decided == DecidedDType(input, dtype, out)
    IN  IF DTypeOutMismatch(dtype, out)
        THEN Thrown(MsgDTypeOutMismatch, None, out, <<>>)
        ELSE LET out2 == OutputFor(input, decided, out, device_visible,
                                   next_id)
                 allocs == IF out2 = out THEN <<>> ELSE <<AllocEvent(out2)>>
                 r == Invoke(op, input, decided, out2)
             IN  [r EXCEPT !.events = allocs \o r.events,
                           !.dtype = decided,
                           !.out_after = IF out2 = out THEN r.out_after
                                         ELSE out]

(***************************************************************************)
(* Elementwise add / subtract / multiply / divide.                         *)
(***************************************************************************)
\* A py::handle operand: a device_array or a bare python scalar.
ArrayOperand(a) == [isarray |-> TRUE, arr |-> a, scalar |-> 0]
ScalarOperand(v) == [isarray |-> FALSE, arr |-> NoArray, scalar |-> v]

\* OptionalArrayCast followed by the dtype() the caller hands to promote.
OperandDType(x) == IF x.isarray THEN x.arr.dtype ELSE None

\* ConvertPyToEltTy(py_value, EltTy())
ConvertPyToEltTy(py_value, EltTy) ==
    IF cpp_is_integer(EltTy)
    THEN BitsElem(Enc(py_value, cpp_bits(EltTy) \div 8))
    ELSE SymElem(<<"py", EltTy, py_value>>)

\* AddFunctor / SubtractFunctor / MultiplyFunctor / DivideFunctor on one pair
\* of elements mapped at EltTy.
FunctorInvoke(op, a, b, EltTy) ==
    IF cpp_is_integer(EltTy) /\ a.k = "bits" /\ b.k = "bits"
    THEN IF op = "divide" /\ DivUndefined(a.b, b.b, EltTy)
         THEN TrapElem
         ELSE BitsElem(CASE op = "add" -> AddC(a.b, b.b, 0)
                         [] op = "subtract" -> Sub(a.b, b.b)
                         [] op = "multiply" -> Mul(a.b, b.b)
                         [] op = "divide" -> DivAt(a.b, b.b, EltTy))
    ELSE SymElem(<<op, EltTy, a, b>>)

\* handle_result allocating a fresh array even when the caller gave one.
HandleResultOutFresh(device, shape, dtype, out, device_visible, next_id) ==
    for_host(device, shape, dtype, device_visible, next_id)

\* if (!out) out.emplace(device_array::for_host(...)) of handle_result: the
\* array the result is written to and that is returned.
HandleResultOut(device, shape, dtype, out, device_visible, next_id) ==
    IF out.present THEN out
    ELSE for_host(device, shape, dtype, device_visible, next_id)

\* The compute lambda of ElementwiseOperation instantiated at EltTy, with
\* handle_result: lhs and rhs are the operands after conversion.
ElementwiseCompute(op, lhs, rhs, dtype, EltTy, out, device_visible, next_id) ==
    LET some == IF rhs.isarray /\ ~lhs.isarray THEN rhs.arr ELSE lhs.arr
        n == Len(some.data)
        l(i) == IF lhs.isarray THEN lhs.arr.data[i]
                ELSE ConvertPyToEltTy(lhs.scalar, EltTy)
        r(i) == IF rhs.isarray THEN rhs.arr.data[i]
                ELSE ConvertPyToEltTy(rhs.scalar, EltTy)
        result == [i \in 1..n |-> FunctorInvoke(op, l(i), r(i), EltTy)]
        out2 == HandleResultOut(some.device, n, dtype, out, device_visible,
                                next_id)
        allocs == IF out2.id = out.id THEN <<>> ELSE <<AllocEvent(out2)>>
        o == [out2 EXCEPT !.data = result]
    IN  IF \E i \in 1..n : result[i].k = "trap"
        THEN Killed(allocs \o <<WriteEvent(out2)>>)
        ELSE Returned(o, IF out2.id = out.id THEN o ELSE out,
                      allocs \o <<WriteEvent(out2)>>)

\* A test that sends every array operand through convert.
NeedsConversionAlways(x, dtype) == x.isarray

\* Whether ElementwiseOperation converts an array operand.
NeedsConversion(x, dtype) == x.isarray /\ x.arr.dtype # dtype

\* Names for the arrays a call allocates (the caller's own arrays are named
\* "input", "lhs", "rhs" and "out").
TempLhsId == "converted lhs"
TempRhsId == "converted rhs"
ResultId == "allocated out"

\* The operand the kernel computes on: the converted array when the operand
\* was converted (conv is the outcome of that conversion), else the operand.
ConvertedOperand(x, dtype, conv) ==
    IF NeedsConversion(x, dtype) THEN ArrayOperand(conv.ret) ELSE x

\* The outcome of ElementwiseOperation given the promoted dtype, the
\* outcomes lconv and rconv of converting the operands (looked at only for
\* an operand that needs conversion) and the outcome c of the dispatch.
ElementwiseOutcome(lhs, rhs, out, dtype, lconv, rconv, c) ==
    LET levs == IF NeedsConversion(lhs, dtype) THEN lconv.events ELSE <<>>
        ltmp == IF NeedsConversion(lhs, dtype) /\ lconv.status = "ok"
                THEN <<lconv.ret>> ELSE <<>>
        revs == IF NeedsConversion(rhs, dtype) THEN rconv.events ELSE <<>>
        rtmp == IF NeedsConversion(rhs, dtype) /\ rconv.status = "ok"
                THEN <<rconv.ret>> ELSE <<>>
    IN  IF dtype = Throws
        THEN Thrown(MsgNoArrayOperand, None, out, <<>>)
        ELSE IF NeedsConversion(lhs, dtype) /\ lconv.status = "error"
        THEN [lconv EXCEPT !.out_after = out, !.dtype = dtype]
        ELSE IF NeedsConversion(rhs, dtype) /\ rconv.status = "error"
        THEN [rconv EXCEPT !.out_after = out, !.dtype = dtype,
                           !.temps = ltmp, !.events = levs \o rconv.events]
        ELSE IF ElementwiseEltTy(dtype) = Default
        THEN [Thrown(MsgElementwiseUnsupported, dtype, out, levs \o revs)
                EXCEPT !.dtype = dtype, !.temps = ltmp \o rtmp]
        ELSE [c EXCEPT !.dtype = dtype, !.temps = ltmp \o rtmp,
                       !.events = levs \o revs \o c.events]

\* ElementwiseOperation from the operand conversions on: the dispatch on
\* the promoted dtype and the compute lambda.
ElementwiseDispatch(op, lhs, rhs, out, device_visible, dtype, lconv, rconv) ==
    ElementwiseOutcome(
        lhs, rhs, out, dtype, lconv, rconv,
        ElementwiseCompute(op, ConvertedOperand(lhs, dtype, lconv),
                           ConvertedOperand(rhs, dtype, rconv), dtype,
                           ElementwiseEltTy(dtype), out, device_visible,
                           ResultId))

\* ElementwiseOperation from the promotion on: the conversion of each
\* operand whose dtype is not the promoted one.
ElementwisePromoted(op, lhs, rhs, out, device_visible, dtype) ==
    ElementwiseDispatch(
        op, lhs, rhs, out, device_visible, dtype,
        GenericElementwiseConvert("convert", lhs.arr, dtype, NoArray, FALSE,
                                  TempLhsId),
        GenericElementwiseConvert("convert", rhs.arr, dtype, NoArray, FALSE,
                                  TempRhsId))

\* ElementwiseOperation<ElementwiseFunctor>
ElementwiseOperation(op, lhs, rhs, out, device_visible) ==
    ElementwisePromoted(
        op, lhs, rhs, out, device_visible,
        PromoteArithmeticTypes(OperandDType(lhs), OperandDType(rhs)))

(***************************************************************************)
(* transpose.  Arrays are one-dimensional here, so the only permutation is *)
(* the identity and transposing moves every element to its own place; the  *)
(* kernel copies elements as raw units of the dispatched width.            *)
(***************************************************************************)
PermutationVectors == {<<0>>}

\* xt::transpose(*input_t, permutation, xt::check_policy::full())
XtTranspose(data, permutation) == data

\* The compute lambda of transpose instantiated at EltTy.
TransposeCompute(input, permutation, out, device_visible, EltTy, next_id) ==
    LET permuted_t == XtTranspose(input.data, permutation)
        out2 == IF out.present THEN out
                ELSE for_host(input.device, Len(permuted_t), input.dtype,
                              device_visible, next_id)
        allocs == IF out.present THEN <<>> ELSE <<AllocEvent(out2)>>
        o == [out2 EXCEPT !.data = permuted_t]
    IN  Returned(o, IF out.present THEN o ELSE out,
                 <<MapEvent(input, EltTy)>> \o allocs
                     \o <<MapEvent(out2, EltTy), WriteEvent(out2)>>)

\* The lambda bound as "transpose".
Transpose(input, permutation, out, device_visible) ==
    LET EltTy == MovementEltTy(is_byte_aligned(input.dtype),
                               dense_byte_count(input.dtype))
        r == IF EltTy = NotByteAligned
             THEN Thrown(MsgMovementNotAligned, None, out, <<>>)
             ELSE IF EltTy = BadByteCount
             THEN Thrown(MsgMovementSize, None, out, <<>>)
             ELSE TransposeCompute(input, permutation, out, device_visible,
                                   EltTy, ResultId)
    IN  [r EXCEPT !.dtype = input.dtype]

(***************************************************************************)
(* Inputs.  Array contents are windows of ValList: the left operand of a   *)
(* binary operator starts at s and the right one at s + 1, so the pairs    *)
(* (10, 3), (-7, 2), (-128, -1) and (7, -2) occur at the first index and   *)
(* (3, -7), (2, -128), (-1, 7), (-2, 10) at the second.  Python scalars    *)
(* fit every element type; the scalar 0 is a zero divisor.  A divide call  *)
(* can also be handed the one-element arrays [lowest] and [-1] of a signed *)
(* integer dtype, whose quotient does not exist at that dtype.  An array   *)
(* of a float dtype holds the same window of its own list of bit patterns, *)
(* which has values on and off the grids of the narrower formats; no       *)
(* pattern is a NaN.  Arrays of the boolean and complex dtypes hold        *)
(* uninterpreted literals.                                                 *)
(***************************************************************************)
MaxLen == 2

ValList == <<10, 3, -7, 2, -128, -1, 7, -2>>

Starts == {1, 3, 5, 7}
ConvertStarts == {1, 3}
Scalars == {0, 2, 3}
Devices == {"host0"}

\* float32 patterns: 0x3F800001, 0x3F80C000, 0xBFC00000, 0x3F8E8000,
\* 0x41200000, 0xC0E00000, 0x40400000, 0x3F000000.
Float32List ==
    << <<1, 0, 128, 63>>, <<0, 192, 128, 63>>, <<0, 0, 192, 191>>,
       <<0, 128, 142, 63>>, <<0, 0, 32, 65>>, <<0, 0, 224, 192>>,
       <<0, 0, 64, 64>>, <<0, 0, 0, 63>> >>

\* float16 patterns: 0x3C01, 0x3C00, 0xBE00, 0x4200, 0x0001, 0x7BFF, 0xC900,
\* 0x3800.
Float16List ==
    << <<1, 60>>, <<0, 60>>, <<0, 190>>, <<0, 66>>, <<1, 0>>, <<255, 123>>,
       <<0, 201>>, <<0, 56>> >>

\* bfloat16 patterns: 0x3F80, 0x3F81, 0xC980, 0x4040, 0x0080, 0x4120,
\* 0xC0E0, 0x3F00.
BFloat16List ==
    << <<128, 63>>, <<129, 63>>, <<128, 201>>, <<64, 64>>, <<128, 0>>,
       <<32, 65>>, <<224, 192>>, <<0, 63>> >>

\* float64 patterns: 0x3FF0000000000001, 0x3FF8000000000000,
\* 0xC01C000000000000, 0x3FF0000030000000, 0x7E37E43C8800759C,
\* 0x4024000000000000, 0x36A0000000000000, 0x3FE0000000000000.
Float64List ==
    << <<1, 0, 0, 0, 0, 0, 240, 63>>, <<0, 0, 0, 0, 0, 0, 248, 63>>,
       <<0, 0, 0, 0, 0, 0, 28, 192>>, <<0, 0, 0, 48, 0, 0, 240, 63>>,
       <<156, 117, 0, 136, 60, 228, 55, 126>>, <<0, 0, 0, 0, 0, 0, 36, 64>>,
       <<0, 0, 0, 0, 0, 0, 160, 54>>, <<0, 0, 0, 0, 0, 0, 224, 63>> >>

\* float8_e4m3fn codes: 0x38 (1), 0x01 (the smallest subnormal), 0xC4 (-3),
\* 0x7E (448, the largest), 0x07, 0x08 (the smallest normal), 0xBC, 0x49.
Float8E4M3FNList ==
    << <<56>>, <<1>>, <<196>>, <<126>>, <<7>>, <<8>>, <<188>>, <<73>> >>

\* float8_e4m3fnuz codes: 0x40 (1), 0x01 (the smallest subnormal), 0xC4,
\* 0x7F (240, the largest), 0x07, 0x08 (the smallest normal), 0xBC, 0x49.
Float8E4M3FNUZList ==
    << <<64>>, <<1>>, <<196>>, <<127>>, <<7>>, <<8>>, <<188>>, <<73>> >>

BitFloatDTypes == FloatDTypes

FloatList(d) ==
    CASE d = "float32" -> Float32List
      [] d = "float64" -> Float64List
      [] d = "float16" -> Float16List
      [] d = "bfloat16" -> BFloat16List
      [] d = "float8_e4m3fn" -> Float8E4M3FNList
      [] d = "float8_e4m3fnuz" -> Float8E4M3FNUZList

\* The n slots of the lists an array starting at slot s holds.
Window(s, n) == [i \in 1..n |-> ((s + i - 2) % Len(ValList)) + 1]

\* The element of dtype d drawn from slot v.
ElemOf(d, v) ==
    IF is_integer(d) THEN BitsElem(Enc(ValList[v], bit_count(d) \div 8))
    ELSE IF d \in BitFloatDTypes THEN BitsElem(FloatList(d)[v])
    ELSE SymElem(<<"lit", ValList[v]>>)

CallerArray(id, d, vals, device) ==
    [present |-> TRUE, id |-> id, dtype |-> d,
     data |-> [i \in 1..Len(vals) |-> ElemOf(d, vals[i])],
     visible |-> FALSE, device |-> device]

\* The dtypes whose lowest value has no negation.
LowestDTypes == {"int8", "int16", "int32", "int64"}

\* The one-element array [lowest] (-1 FALSE) or [-1] of dtype d.
ExtremeArray(id, d, lowest, device) ==
    LET w == bit_count(d) \div 8 IN
    [present |-> TRUE, id |-> id, dtype |-> d,
     data |-> <<BitsElem([i \in 1..w |->
                    IF ~lowest THEN 255 ELSE IF i = w THEN 128 ELSE 0])>>,
     visible |-> FALSE, device |-> device]

\* A caller's out buffer: n elements of earlier content.
CallerOut(d, n, device) ==
    [present |-> TRUE, id |-> "out", dtype |-> d,
     data |-> [i \in 1..n |-> SymElem(<<"old", i>>)],
     visible |-> FALSE, device |-> device]

NoOperand == [isarray |-> FALSE, arr |-> NoArray, scalar |-> 0]

NoCall ==
    [op |-> None, lhs_dtype |-> None, rhs_dtype |-> None, input |-> NoArray,
     dtype |-> None, out |-> NoArray, device_visible |-> FALSE,
     lhs |-> NoOperand, rhs |-> NoOperand, origin |-> NoArray]

NoOutcome ==
    [status |-> None, msg |-> NoError, msg_dtype |-> None, dtype |-> None,
     ret |-> NoArray, out_after |-> NoArray, temps |-> <<>>, events |-> <<>>]

Init == pc = "idle" /\ call = NoCall /\ outcome = NoOutcome

\* A direct call of PromoteArithmeticTypes(lhs_dtype, rhs_dtype).
CallPromote ==
    /\ pc = "idle"
    /\ \E l \in OptDTypes, r \in OptDTypes :
        LET p == PromoteArithmeticTypes(l, r) IN
        /\ call' = [NoCall EXCEPT !.op = "promote", !.lhs_dtype = l,
                                  !.rhs_dtype = r]
        /\ outcome' = IF p = Throws
                      THEN Thrown(MsgNoArrayOperand, None, NoArray, <<>>)
                      ELSE [Returned(NoArray, NoArray, <<>>)
                              EXCEPT !.dtype = p]
    /\ pc' = "done"

\* convert / round / ceil / floor / trunc (input, dtype=, out=,
\* device_visible=)
CallConvert ==
    /\ pc = "idle"
    /\ \E op \in ConvertOps, d \in DTypes, s \in ConvertStarts,
          n \in 1..MaxLen, dev \in Devices, dtype \in OptDTypes,
          od \in OptDTypes, vis \in BOOLEAN :
        LET input == CallerArray("input", d, Window(s, n), dev)
            out == IF od = None THEN NoArray ELSE CallerOut(od, n, dev)
        IN  /\ (od # None => ~vis)
            /\ call' = [NoCall EXCEPT !.op = op, !.input = input,
                                      !.dtype = dtype, !.out = out,
                                      !.device_visible = vis]
            /\ outcome' = GenericElementwiseConvert(op, input, dtype, out, vis,
                                                    ResultId)
    /\ pc' = "done"

\* add / subtract / multiply / divide (lhs, rhs, out=, device_visible=).
\* A given out buffer has the shape and the dtype of the result (the
\* operators do not check either).
CallElementwise ==
    /\ pc = "idle"
    /\ \E op \in ElementwiseOps, ld \in OptDTypes, rd \in OptDTypes,
          s \in Starts, n \in 1..MaxLen, dev \in Devices,
          ls \in Scalars, rs \in Scalars, od \in OptDTypes, vis \in BOOLEAN,
          extreme \in BOOLEAN :
        LET lhs == IF ld = None THEN ScalarOperand(ls)
                   ELSE IF extreme
                   THEN ArrayOperand(ExtremeArray("lhs", ld, TRUE, dev))
                   ELSE ArrayOperand(CallerArray("lhs", ld, Window(s, n), dev))
            rhs == IF rd = None THEN ScalarOperand(rs)
                   ELSE IF extreme
                   THEN ArrayOperand(ExtremeArray("rhs", rd, FALSE, dev))
                   ELSE ArrayOperand(CallerArray("rhs", rd, Window(s + 1, n),
                                                 dev))
            p == PromoteArithmeticTypes(ld, rd)
            out == IF od = None THEN NoArray ELSE CallerOut(od, n, dev)
        IN  /\ (extreme => /\ op = "divide" /\ ld \in LowestDTypes /\ rd = ld
                           /\ s = 1 /\ n = 1 /\ od = None /\ ~vis)
            /\ (ld # None => ls = 2)
            /\ (rd # None => rs = 2)
            /\ (od # None => ~vis /\ (p = Throws \/ od = p))
            /\ call' = [NoCall EXCEPT !.op = op, !.lhs = lhs, !.rhs = rhs,
                                      !.out = out, !.device_visible = vis]
            /\ outcome' = ElementwiseOperation(op, lhs, rhs, out, vis)
            /\ pc' = IF outcome'.status = "killed" THEN "dead" ELSE "done"

\* The caller takes the result (or handles the exception) and is ready for
\* the next call.
Return ==
    /\ pc = "done"
    /\ pc' = "idle"
    /\ call' = NoCall
    /\ outcome' = NoOutcome

\* The low halves of the float patterns handed to bfloat16_t: 0x0000,
\* 0x0001, 0xC000.
LowHalves == {<<0, 0>>, <<1, 0>>, <<0, 192>>}
Bytes == 0..255

\* One value of dtype d as a one-element array.
ValueArray(id, d, b) ==
    [present |-> TRUE, id |-> id, dtype |-> d, data |-> <<BitsElem(b)>>,
     visible |-> FALSE, device |-> None]

\* The struct bfloat16_t on one float f: v = bfloat16_t(f), w = float(v) and
\* v2 = bfloat16_t(w).  call.input holds f, outcome.ret holds w and
\* outcome.temps holds v and v2.  The upper half of f ranges over all 65536
\* patterns, so v does too.
CallBfloat16 ==
    /\ pc = "idle"
    /\ \E low \in LowHalves, b3 \in Bytes, b4 \in Bytes :
        LET f == low \o <<b3, b4>>
            v == bfloat16_t_from_float(f)
            w == bfloat16_t_to_float(v)
            v2 == bfloat16_t_from_float(w)
        IN  /\ call' = [NoCall EXCEPT
                            !.op = "bfloat16_t",
                            !.input = ValueArray("f", "float32", f)]
            /\ outcome' = [Returned(ValueArray("w", "float32", w), NoArray,
                                    <<>>)
                             EXCEPT !.temps =
                                 <<ValueArray("v", "bfloat16", v),
                                   ValueArray("v2", "bfloat16", v2)>>]
    /\ pc' = "done"

\* transpose(input, permutation, out=, device_visible=).  A given out buffer
\* has the dtype of the input (transpose does not check it).
CallTranspose ==
    /\ pc = "idle"
    /\ \E d \in DTypes \cup SubByteDTypes, s \in Starts, n \in 1..MaxLen,
          dev \in Devices, perm \in PermutationVectors, given \in BOOLEAN,
          vis \in BOOLEAN :
        LET input == CallerArray("input", d, Window(s, n), dev)
            out == IF given THEN CallerOut(d, n, dev) ELSE NoArray
        IN  /\ (given => ~vis)
            /\ call' = [NoCall EXCEPT !.op = "transpose", !.input = input,
                                      !.out = out, !.device_visible = vis]
            /\ outcome' = Transpose(input, perm, out, vis)
    /\ pc' = "done"

\* convert(convert(x, B), A): the caller hands the array a convert call
\* returned to a second convert call, asking for the dtype of the array x the
\* first call was given.  call.origin keeps x.
ConvertBack ==
    /\ pc = "done"
    /\ call.op = "convert"
    /\ ~call.origin.present
    /\ outcome.status = "ok"
    /\ LET input == [outcome.ret EXCEPT !.id = "input"]
           dtype == call.input.dtype
       IN  /\ call' = [NoCall EXCEPT !.op = "convert", !.input = input,
                                     !.dtype = dtype, !.origin = call.input]
           /\ outcome' = GenericElementwiseConvert("convert", input, dtype,
                                                   NoArray, FALSE, ResultId)
    /\ pc' = "done"

Next ==
    \/ CallPromote
    \/ CallConvert
    \/ ConvertBack
    \/ CallElementwise
    \/ CallTranspose
    \/ CallBfloat16
    \/ Return

Spec == Init /\ [][Next]_vars

\* The same machine restricted to one kernel family.
SpecPromote == Init /\ [][CallPromote \/ Return]_vars
SpecConvert == Init /\ [][CallConvert \/ Return]_vars
SpecElementwise == Init /\ [][CallElementwise \/ Return]_vars
SpecRoundTrip == Init /\ [][CallConvert \/ ConvertBack \/ Return]_vars
SpecTranspose == Init /\ [][CallTranspose \/ Return]_vars
SpecBfloat16 == Init /\ [][CallBfloat16 \/ Return]_vars

(***************************************************************************)
(* Properties of PromoteArithmeticTypes, stated on completed calls.        *)
(***************************************************************************)
PromoteDone == pc = "done" /\ call.op = "promote"

BothPresent == call.lhs_dtype # None /\ call.rhs_dtype # None

\* The classes in their order: boolean < integer < float < complex.
ClassOf(d) ==
    CASE is_boolean(d) -> 1
      [] is_integer(d) -> 2
      [] is_float(d) -> 3
      [] is_complex(d) -> 4

\* The operand that wins the comparison, said without the ranks: the higher
\* class, then the wider one, then the left one.
Winning(l, r) ==
    IF ClassOf(l) # ClassOf(r)
    THEN (IF ClassOf(l) < ClassOf(r) THEN r ELSE l)
    ELSE IF bit_count(l) < bit_count(r) THEN r ELSE l

\* The signed/unsigned escalation applies to the pair (l, r).
Escalates(l, r) ==
    is_integer(Winning(l, r)) /\ is_unsigned(l) # is_unsigned(r)

\* C2: with both dtypes present, an integer winner and exactly one unsigned
\* input, promote returns the next larger signed integer dtype for the
\* winner's width (8 -> int16, 16 -> int32, 32 -> int64, 64 -> int64), in
\* either operand order; promote(i8,u8) = i16, promote(i32,u32) = i64 and
\* promote(u64,i64) = i64.
C2_EscalatesToNextSigned ==
    (PromoteDone /\ BothPresent) =>
        LET l == call.lhs_dtype
            r == call.rhs_dtype
            bits == bit_count(Winning(l, r))
        IN  /\ Escalates(l, r) =>
                /\ outcome.status = "ok"
                /\ outcome.dtype = CASE bits = 8 -> "int16"
                                     [] bits = 16 -> "int32"
                                     [] bits = 32 -> "int64"
                                     [] bits = 64 -> "int64"
            /\ {l, r} = {"int8", "uint8"} => outcome.dtype = "int16"
            /\ {l, r} = {"int32", "uint32"} => outcome.dtype = "int64"
            /\ {l, r} = {"int64", "uint64"} => outcome.dtype = "int64"

C2_Witness ==
    /\ PromoteDone
    /\ call.lhs_dtype = "uint64" /\ call.rhs_dtype = "int64"
    /\ outcome.dtype = "int64"

\* C3 as stated: two present dtypes of different classes promote to the one
\* of the higher class whatever the widths and the order; two of the same
\* class with different widths and no signedness mismatch promote to the
\* wider one.
C3_HigherClassWins ==
    (PromoteDone /\ BothPresent) =>
        LET l == call.lhs_dtype
            r == call.rhs_dtype
        IN  /\ ClassOf(l) # ClassOf(r) =>
                outcome.dtype = (IF ClassOf(l) < ClassOf(r) THEN r ELSE l)
            /\ (/\ ClassOf(l) = ClassOf(r)
                /\ bit_count(l) # bit_count(r)
                /\ is_unsigned(l) = is_unsigned(r)) =>
                outcome.dtype = (IF bit_count(l) < bit_count(r) THEN r ELSE l)

\* C3 amended: the same, for pairs of different classes too only where the
\* signed/unsigned escalation does not apply (an integer winner whose
\* partner differs from it in unsignedness is escalated whatever the
\* partner's class).
C3_HigherClassWinsUnlessEscalated ==
    (PromoteDone /\ BothPresent) =>
        LET l == call.lhs_dtype
            r == call.rhs_dtype
        IN  /\ (ClassOf(l) # ClassOf(r) /\ ~Escalates(l, r)) =>
                outcome.dtype = (IF ClassOf(l) < ClassOf(r) THEN r ELSE l)
            /\ (/\ ClassOf(l) = ClassOf(r)
                /\ bit_count(l) # bit_count(r)
                /\ is_unsigned(l) = is_unsigned(r)) =>
                outcome.dtype = (IF bit_count(l) < bit_count(r) THEN r ELSE l)

C3_Witness ==
    /\ PromoteDone
    /\ call.lhs_dtype = "int64" /\ call.rhs_dtype = "float8_e4m3fn"
    /\ outcome.dtype = "float8_e4m3fn"

\* C4: with both dtypes present, equal ranks (same class, same bit count)
\* and no escalation, promote returns the left-hand dtype: promote(a,a) = a,
\* and float16 with bfloat16 gives the left one in each order.
C4_TieGoesLeft ==
    (PromoteDone /\ BothPresent) =>
        LET l == call.lhs_dtype
            r == call.rhs_dtype
        IN  /\ (/\ ClassOf(l) = ClassOf(r)
                /\ bit_count(l) = bit_count(r)
                /\ ~Escalates(l, r)) =>
                outcome.status = "ok" /\ outcome.dtype = l
            /\ l = r => outcome.dtype = l
            /\ {l, r} = {"float16", "bfloat16"} => outcome.dtype = l

C4_Witness ==
    /\ PromoteDone
    /\ call.lhs_dtype = "bfloat16" /\ call.rhs_dtype = "float16"
    /\ outcome.dtype = "bfloat16"

\* C6: with exactly one operand absent, promote returns the present dtype
\* unchanged, whichever side is absent and whatever the present dtype is.
C6_OneAbsentKeepsDType ==
    PromoteDone =>
        /\ (call.lhs_dtype = None /\ call.rhs_dtype # None) =>
            outcome.status = "ok" /\ outcome.dtype = call.rhs_dtype
        /\ (call.lhs_dtype # None /\ call.rhs_dtype = None) =>
            outcome.status = "ok" /\ outcome.dtype = call.lhs_dtype

C6_Witness ==
    /\ PromoteDone
    /\ call.lhs_dtype = None /\ call.rhs_dtype = "uint8"
    /\ outcome.dtype = "uint8"

(***************************************************************************)
(* Properties of the host ops, stated on completed calls.                  *)
(***************************************************************************)
ConvertDone == pc = "done" /\ call.op \in ConvertOps

ElementwiseDone == pc = "done" /\ call.op \in ElementwiseOps

Failed == outcome.status = "error"

EventsOf(kind) ==
    {i \in 1..Len(outcome.events) : outcome.events[i].ev = kind}

\* C5: promote with both operands absent fails with invalid-arguments and
\* returns no dtype; an elementwise operator called with two bare scalars
\* fails the same way, having converted, allocated and written nothing.
C5_BothAbsentFails ==
    /\ (PromoteDone /\ call.lhs_dtype = None /\ call.rhs_dtype = None) =>
        /\ Failed
        /\ outcome.msg = MsgNoArrayOperand
        /\ outcome.dtype = None
    /\ (ElementwiseDone /\ ~call.lhs.isarray /\ ~call.rhs.isarray) =>
        /\ Failed
        /\ outcome.msg = MsgNoArrayOperand
        /\ outcome.events = <<ThrowEvent>>
        /\ outcome.temps = <<>>
        /\ outcome.ret = NoArray
        /\ outcome.out_after = call.out

C5_Witness ==
    /\ ElementwiseDone
    /\ ~call.lhs.isarray /\ ~call.rhs.isarray
    /\ call.out.present
    /\ Failed

\* C9: in every failing call of convert, round, ceil, floor, trunc, add,
\* subtract, multiply or divide, the caller's output buffer is as it was
\* given and no write to it happened before the error was raised.
C9_NoWriteBeforeError ==
    ((ConvertDone \/ ElementwiseDone) /\ Failed) =>
        /\ outcome.out_after = call.out
        /\ \A i \in EventsOf("write") : outcome.events[i].id # call.out.id
        /\ outcome.events[Len(outcome.events)] = ThrowEvent

\* A failing call that was given an output buffer and got as far as the
\* store switch of its kernel.
C9_Witness ==
    /\ ConvertDone
    /\ Failed
    /\ call.out.present
    /\ outcome.msg = MsgNearestInvalidOutput

\* The element type t has the classification, the bit width and the
\* signedness of the dtype tag d.
Agrees(d, t) ==
    /\ is_integer(d) <=> cpp_is_integer(t)
    /\ is_float(d) <=> cpp_is_float(t)
    /\ bit_count(d) = cpp_bits(t)
    /\ is_integer(d) => (is_unsigned(d) <=> cpp_is_unsigned(t))

\* C1: whenever a kernel ran, the element types it was instantiated at agree
\* with the dtype tags they were selected for (the input dispatch and the
\* output store of convert, round, ceil, floor and trunc; the dispatch of
\* add, subtract, multiply and divide), the signed integer tags included.
C1_ElementTypeAgreesWithTag ==
    /\ (ConvertDone /\ ~Failed) =>
        /\ Agrees(call.input.dtype, InputEltTy(call.op, call.input.dtype))
        /\ (call.op = "convert" \/ call.input.dtype # outcome.dtype) =>
            Agrees(outcome.dtype, StoreEltTy(call.op, outcome.dtype))
    /\ (ElementwiseDone /\ ~Failed) =>
        Agrees(outcome.dtype, ElementwiseEltTy(outcome.dtype))

\* C7: a conversion called without an output buffer on an input dtype its
\* kernel does not dispatch fails, and no array was allocated during the
\* call.
C7_UnsupportedInputAllocatesNothing ==
    (/\ ConvertDone
     /\ ~call.out.present
     /\ InputEltTy(call.op, call.input.dtype) = Default) =>
        /\ Failed
        /\ EventsOf("alloc") = {}

\* The dtype a failed dispatch rejected: the input's for a conversion; for an
\* elementwise operator the promotion dtype, or the dtype of the operand
\* whose conversion to it was rejected.
RejectedDType ==
    IF call.op \in ConvertOps THEN call.input.dtype
    ELSE IF outcome.msg = MsgElementwiseUnsupported THEN outcome.dtype
    ELSE IF /\ NeedsConversion(call.lhs, outcome.dtype)
            /\ ConvertInputEltTy(call.lhs.arr.dtype) = Default
    THEN call.lhs.arr.dtype
    ELSE call.rhs.arr.dtype

\* The operations the text of an unsupported-dtype message names.
OpsNamedBy(msg) ==
    CASE msg = MsgNearestUnsupported -> NearestOps
      [] msg = MsgElementwiseUnsupported -> ElementwiseOps
      [] OTHER -> {}

\* C8: an unsupported-dtype error names the dtype that was rejected and the
\* operation that was called, also when the rejected input dtype is not the
\* requested output dtype.
C8_ErrorNamesRejectedDTypeAndOp ==
    (/\ ConvertDone \/ ElementwiseDone
     /\ Failed
     /\ outcome.msg \in {MsgNearestUnsupported, MsgElementwiseUnsupported}) =>
        /\ outcome.msg_dtype = RejectedDType
        /\ call.op \in OpsNamedBy(outcome.msg)

\* The number an integer element holds under the C++ type ty, for elements
\* of at most 16 significant bits (HoldsSmall).
HoldsSmall(e, ty) ==
    /\ e.k = "bits"
    /\ \A i \in 3..Len(e.b) :
        e.b[i] = (IF IsNegative(e.b, ty) THEN 255 ELSE 0)
    /\ (Len(e.b) >= 2 /\ ~cpp_is_unsigned(ty)) =>
        ((e.b[2] >= 128) <=> IsNegative(e.b, ty))

ValueOf(e, ty) ==
    LET low == e.b[1] + (IF Len(e.b) >= 2 THEN 256 * e.b[2] ELSE 0)
        span == IF Len(e.b) >= 2 THEN 65536 ELSE 256
    IN  IF IsNegative(e.b, ty) THEN low - span ELSE low

Abs(x) == IF x < 0 THEN -x ELSE x

\* The quotient of a by b truncated toward zero.
TruncDiv(a, b) ==
    IF (a < 0) = (b < 0) THEN Abs(a) \div Abs(b) ELSE -(Abs(a) \div Abs(b))

\* q is a value of the integer dtype d.
Representable(q, d) ==
    IF is_unsigned(d) THEN q >= 0 /\ (bit_count(d) > 16 \/ q < 2 ^ bit_count(d))
    ELSE bit_count(d) > 16
         \/ (q >= -(2 ^ (bit_count(d) - 1)) /\ q < 2 ^ (bit_count(d) - 1))

\* C10: divide on two integer arrays yields, in the promotion dtype, the
\* quotient of the operands' values (each read under its own dtype)
\* truncated toward zero, for every quotient the promotion dtype holds:
\* int8 [10] by uint8 [3] gives int16 [3], and negative operands truncate
\* toward zero in int8, int16, int32 and int64.
C10_DivideTruncatesTowardZero ==
    (/\ ElementwiseDone
     /\ call.op = "divide"
     /\ call.lhs.isarray /\ call.rhs.isarray
     /\ is_integer(call.lhs.arr.dtype) /\ is_integer(call.rhs.arr.dtype)) =>
        LET ld == call.lhs.arr.dtype
            rd == call.rhs.arr.dtype
            p == PromoteArithmeticTypes(ld, rd)
        IN  /\ ~Failed
            /\ outcome.ret.dtype = p
            /\ \A i \in 1..Len(call.lhs.arr.data) :
                LET a == call.lhs.arr.data[i]
                    b == call.rhs.arr.data[i]
                    lt == ConvertStoreEltTy(ld)
                    rt == ConvertStoreEltTy(rd)
                IN  (/\ HoldsSmall(a, lt) /\ HoldsSmall(b, rt)
                     /\ Representable(
                            TruncDiv(ValueOf(a, lt), ValueOf(b, rt)), p)) =>
                        outcome.ret.data[i] =
                            BitsElem(Enc(TruncDiv(ValueOf(a, lt),
                                                  ValueOf(b, rt)),
                                         bit_count(p) \div 8))

SignedIntDTypes == {"int8", "int16", "int32", "int64"}

\* C11: convert from a signed integer dtype to a wider signed integer dtype
\* (int8 to int16, int16 to int32, int32 to int64) succeeds and every output
\* element holds the number the input element holds, negative ones included.
C11_WideningKeepsValue ==
    (/\ ConvertDone
     /\ call.op = "convert"
     /\ call.input.dtype \in SignedIntDTypes
     /\ outcome.dtype \in SignedIntDTypes
     /\ cpp_bits(ConvertStoreEltTy(outcome.dtype))
            > cpp_bits(ConvertStoreEltTy(call.input.dtype))) =>
        /\ ~Failed
        /\ \A i \in 1..Len(call.input.data) :
            LET x == call.input.data[i]
                ty == ConvertStoreEltTy(call.input.dtype)
            IN  HoldsSmall(x, ty) =>
                    outcome.ret.data[i] =
                        BitsElem(Enc(ValueOf(x, ty),
                                     cpp_bits(ConvertStoreEltTy(outcome.dtype))
                                         \div 8))

\* The output dtype the conversion family documents for the call made.
DocumentedDType ==
    IF call.dtype # None THEN call.dtype
    ELSE IF call.out.present THEN call.out.dtype
    ELSE call.input.dtype

\* A conversion call that got past the dtype / out argument check.
ConvertChecked == ConvertDone /\ outcome.msg # MsgDTypeOutMismatch

\* C13: in convert, round, ceil, floor and trunc the decided output dtype is
\* the explicit dtype when given, else the out buffer's dtype when a buffer
\* is given, else the input's dtype: the functor is invoked with it, an
\* allocated output has it, and a returned array has it.
C13_DecidedDType ==
    ConvertChecked =>
        /\ outcome.dtype = DocumentedDType
        /\ \A i \in EventsOf("alloc") :
            outcome.events[i].dtype = DocumentedDType
        /\ ~Failed => outcome.ret.dtype = DocumentedDType

C13_Witness ==
    /\ ConvertDone
    /\ call.dtype = None
    /\ call.out.present
    /\ call.out.dtype = "int16"
    /\ call.input.dtype = "int8"
    /\ ~Failed
    /\ outcome.ret.dtype = "int16"

\* C14: when both dtype and out are given and out's dtype differs, the call
\* fails with invalid-arguments (the dtype / out message), nothing is
\* allocated and the buffer is left unwritten; when they are equal the check
\* raises no error.
C14_MismatchFails ==
    (ConvertDone /\ call.dtype # None /\ call.out.present) =>
        IF call.out.dtype # call.dtype
        THEN /\ Failed
             /\ outcome.msg = MsgDTypeOutMismatch
             /\ EventsOf("alloc") = {}
             /\ EventsOf("write") = {}
             /\ outcome.out_after = call.out
        ELSE outcome.msg # MsgDTypeOutMismatch

C14_Witness ==
    /\ ConvertDone
    /\ call.dtype = "float32"
    /\ call.out.present
    /\ call.out.dtype = "int8"
    /\ Failed

\* C15: with no out buffer exactly one array is allocated, with the decided
\* dtype and the input's shape and device, and a call that returns returns
\* it; with an out buffer nothing is allocated and a call that returns
\* returns that buffer.
C15_OneAllocationOrTheBuffer ==
    ConvertChecked =>
        IF ~call.out.present
        THEN /\ Cardinality(EventsOf("alloc")) = 1
             /\ \A i \in EventsOf("alloc") :
                 /\ outcome.events[i].dtype = DocumentedDType
                 /\ outcome.events[i].shape = Len(call.input.data)
                 /\ outcome.events[i].device = call.input.device
                 /\ ~Failed =>
                     /\ outcome.ret.id = outcome.events[i].id
                     /\ outcome.ret.id # call.input.id
                     /\ outcome.ret.dtype = DocumentedDType
                     /\ Len(outcome.ret.data) = Len(call.input.data)
                     /\ outcome.ret.device = call.input.device
        ELSE /\ EventsOf("alloc") = {}
             /\ ~Failed =>
                 /\ outcome.ret.id = call.out.id
                 /\ outcome.ret = outcome.out_after

C15_Witness ==
    /\ ConvertDone
    /\ ~call.out.present
    /\ ~Failed
    /\ Len(call.input.data) = 2
    /\ outcome.ret.id = ResultId

NearestInputDTypes ==
    {"float8_e4m3fn", "float8_e4m3fnuz", "bfloat16", "float16", "float32"}

NearestDone == ConvertChecked /\ call.op \in NearestOps

\* C16: round, ceil, floor and trunc accept float8_e4m3fn, float8_e4m3fnuz,
\* bfloat16, float16 and float32 inputs (the input dispatch does not reject
\* them) and reject every other input dtype, integer, boolean and float64
\* included, with the unsupported-dtype message.
C16_NearestInputs ==
    NearestDone =>
        IF call.input.dtype \in NearestInputDTypes
        THEN outcome.msg # MsgNearestUnsupported
        ELSE Failed /\ outcome.msg = MsgNearestUnsupported

C16_Witness ==
    /\ NearestDone
    /\ call.op = "trunc"
    /\ call.input.dtype = "float64"
    /\ Failed

NearestCastDTypes == {"uint8", "int8", "uint16", "int16", "uint32", "int32"}

\* C17: round, ceil, floor and trunc on an accepted input: when the decided
\* dtype is the input's the call succeeds and returns that dtype; when it
\* differs the call succeeds exactly for uint8, int8, uint16, int16, uint32
\* and int32 and fails with invalid-arguments (the invalid-output message)
\* for every other dtype.
C17_NearestOutputs ==
    (NearestDone /\ call.input.dtype \in NearestInputDTypes) =>
        IF DocumentedDType = call.input.dtype
        THEN ~Failed /\ outcome.ret.dtype = call.input.dtype
        ELSE IF DocumentedDType \in NearestCastDTypes
        THEN ~Failed /\ outcome.ret.dtype = DocumentedDType
        ELSE Failed /\ outcome.msg = MsgNearestInvalidOutput

C17_Witness ==
    /\ NearestDone
    /\ call.op = "round"
    /\ call.input.dtype = "float32"
    /\ DocumentedDType = "int64"
    /\ Failed

NumericDTypes == IntDTypes \cup FloatDTypes

\* C18: convert succeeds for every (input dtype, output dtype) pair of the
\* fourteen numeric dtypes and fails with invalid-arguments whenever the
\* requested output dtype is outside them (boolean, complex); for a numeric
\* input the failure is the invalid-output one.
C18_ConvertPairs ==
    (ConvertChecked /\ call.op = "convert") =>
        /\ (call.input.dtype \in NumericDTypes
            /\ DocumentedDType \in NumericDTypes) =>
                ~Failed /\ outcome.ret.dtype = DocumentedDType
        /\ DocumentedDType \notin NumericDTypes => Failed
        /\ (call.input.dtype \in NumericDTypes
            /\ DocumentedDType \notin NumericDTypes) =>
                outcome.msg = MsgConvertInvalidOutput

C18_Witness ==
    /\ ConvertDone
    /\ call.op = "convert"
    /\ call.input.dtype = "float8_e4m3fn"
    /\ DocumentedDType = "uint64"
    /\ ~Failed

Operands == <<call.lhs, call.rhs>>

\* C20: add / subtract / multiply / divide, when it returns, has written the
\* result into the caller's out buffer and returns that buffer if one was
\* given; otherwise it has allocated exactly one result array, of the
\* promotion dtype of the two operands, and returns it.  An array combined
\* with a bare scalar so yields the array's dtype.
C20_ResultArray ==
    (ElementwiseDone /\ ~Failed) =>
        LET promoted == PromoteArithmeticTypes(OperandDType(call.lhs),
                                               OperandDType(call.rhs))
            results == {i \in EventsOf("alloc") :
                            outcome.events[i].id = ResultId}
            written == {i \in EventsOf("write") :
                            outcome.events[i].id = outcome.ret.id}
        IN  /\ written # {}
            /\ IF call.out.present
               THEN /\ results = {}
                    /\ outcome.ret.id = call.out.id
                    /\ outcome.out_after = outcome.ret
                    /\ outcome.ret.data # call.out.data
               ELSE /\ Cardinality(results) = 1
                    /\ \A i \in results : outcome.events[i].dtype = promoted
                    /\ outcome.ret.id = ResultId
                    /\ outcome.ret.dtype = promoted
                    /\ \A k \in 1..2 :
                        (Operands[k].isarray /\ ~Operands[3 - k].isarray) =>
                            outcome.ret.dtype = Operands[k].arr.dtype

C20_Witness ==
    /\ ElementwiseDone
    /\ call.op = "add"
    /\ call.lhs.isarray
    /\ call.lhs.arr.dtype = "float32"
    /\ ~call.rhs.isarray
    /\ call.rhs.scalar = 3
    /\ ~call.out.present
    /\ ~Failed
    /\ outcome.ret.dtype = "float32"
    /\ outcome.ret.id = ResultId

\* A convert call made on the result of converting call.origin, back to the
\* dtype of call.origin.
RoundTripDone == pc = "done" /\ call.op = "convert" /\ call.origin.present

\* The element type convert stores a dtype at, its class and its width.
Supported(d) == ConvertStoreEltTy(d) # Default
IntegerElt(d) == cpp_is_integer(ConvertStoreEltTy(d))
FloatElt(d) == cpp_is_float(ConvertStoreEltTy(d))
WidthOf(d) == cpp_bits(ConvertStoreEltTy(d))

\* A pair (A, B) of convert-supported dtypes of one classification with B
\* at least as wide as A.
SameClassAtLeastAsWide(a, b) ==
    /\ Supported(a)
    /\ Supported(b)
    /\ (IntegerElt(a) /\ IntegerElt(b)) \/ (FloatElt(a) /\ FloatElt(b))
    /\ WidthOf(b) >= WidthOf(a)

\* The round trip A -> B -> A brought back every element of the original,
\* byte for byte.
RoundTripExact ==
    /\ ~Failed
    /\ outcome.ret.dtype = call.origin.dtype
    /\ outcome.ret.data = call.origin.data

\* C12 as stated: for convert-supported A and B of the same classification
\* with B at least as wide as A, converting A to B and back to A returns
\* every element unchanged.
C12_RoundTripAtLeastAsWide ==
    (/\ RoundTripDone
     /\ SameClassAtLeastAsWide(call.origin.dtype, call.input.dtype)) =>
        RoundTripExact

\* C12 amended: the same, where for a floating-point A the dtype B is A
\* itself or strictly wider than A (two different float formats of one width
\* do not hold each other's values).  Every pair is compared element by
\* element: the integer dtypes among themselves and float8_e4m3fn,
\* float8_e4m3fnuz, bfloat16, float16, float32 and float64 with every wider
\* float dtype.
C12_RoundTripWiderFloat ==
    (/\ RoundTripDone
     /\ SameClassAtLeastAsWide(call.origin.dtype, call.input.dtype)
     /\ FloatElt(call.origin.dtype) =>
            \/ call.input.dtype = call.origin.dtype
            \/ WidthOf(call.input.dtype) > WidthOf(call.origin.dtype)) =>
        RoundTripExact

\* float8_e4m3fn [1, 2^-9] through float64 [0x3FF0000000000000,
\* 0x3F60000000000000] and back.
C12_Witness ==
    /\ RoundTripDone
    /\ call.origin.dtype = "float8_e4m3fn"
    /\ call.input.dtype = "float64"
    /\ call.origin.data = <<BitsElem(<<56>>), BitsElem(<<1>>)>>
    /\ call.input.data = <<BitsElem(<<0, 0, 0, 0, 0, 0, 240, 63>>),
                           BitsElem(<<0, 0, 0, 0, 0, 0, 96, 63>>)>>
    /\ outcome.ret.data = call.origin.data

\* The low 16 bits and the upper 16 bits of a float32 element.
Low16(e) == e.b[2] * 256 + e.b[1]
Up16(e) == e.b[4] * 256 + e.b[3]

\* float(bfloat16_t(x)) for the float32 elements x of call.origin.
Bfloat16RoundTrip ==
    /\ RoundTripDone
    /\ call.origin.dtype = "float32"
    /\ call.input.dtype = "bfloat16"

\* C19 as stated: float(bfloat16_t(x)) is x when x is on the bfloat16 grid
\* (low 16 bits zero) and otherwise the closer of the two neighbouring
\* bfloat16 values (either one on a tie).
C19_NearestGridPoint ==
    Bfloat16RoundTrip =>
        /\ ~Failed
        /\ \A i \in 1..Len(call.origin.data) :
            LET x == call.origin.data[i]
                r == outcome.ret.data[i]
            IN  /\ r.k = "bits"
                /\ Low16(r) = 0
                /\ Low16(x) < 32768 => Up16(r) = Up16(x)
                /\ Low16(x) > 32768 => Up16(r) = Up16(x) + 1
                /\ Low16(x) = 32768 => Up16(r) \in {Up16(x), Up16(x) + 1}

\* The two fp8 dtypes and the routine that widens each.
Fp8DTypes == {"float8_e4m3fn", "float8_e4m3fnuz"}

\* float(narrow_type(x)) for the float32 elements x of call.origin and an
\* fp8 narrow type.
Fp8RoundTrip ==
    /\ RoundTripDone
    /\ call.origin.dtype = "float32"
    /\ call.input.dtype \in Fp8DTypes

\* The grid of an fp8 dtype: the floats its codes stand for (the NaN codes
\* stand for none).
Grid(d) ==
    {g \in {IF d = "float8_e4m3fn" THEN iree_math_f8e4m3fn_to_f32(<<c>>)
            ELSE iree_math_f8e4m3fnuz_to_f32(<<c>>) : c \in 0..255} :
        g # Undetermined}

\* The magnitude of a float as a number that grows with it: exponent and
\* mantissa read as one integer.
Mag(f) == F32Exp(f) * 8388608 + F32Mant(f)
GridMags(d) == {Mag(g) : g \in Grid(d)}

\* The grid magnitudes next to the magnitude k, below and above.
GridBelow(k, d) ==
    CHOOSE lo \in GridMags(d) :
        lo <= k /\ \A g \in GridMags(d) : g <= k => g <= lo
GridAbove(k, d) ==
    CHOOSE hi \in GridMags(d) :
        hi >= k /\ \A g \in GridMags(d) : g >= k => g >= hi

\* The magnitude k as a multiple of 2^(e0 - 150), for k zero or of exponent
\* e0 or more.
Lin(k, e0) ==
    IF k = 0 THEN 0
    ELSE (8388608 + (k % 8388608)) * 2 ^ ((k \div 8388608) - e0)

\* r is x when x is on the grid of d and otherwise the grid point nearest to
\* x (either neighbour when x is halfway).
NearestOnGrid(x, r, d) ==
    LET k == Mag(x)
        e0 == F32Exp(x)
        lo == GridBelow(k, d)
        hi == GridAbove(k, d)
        dlo == Lin(k, e0) - Lin(lo, e0)
        dhi == Lin(hi, e0) - Lin(k, e0)
    IN  /\ r \in Grid(d)
        /\ x \in Grid(d) => r = x
        /\ Mag(r) \in {lo, hi}
        /\ Mag(r) # 0 => F32Sign(r) = F32Sign(x)
        /\ Mag(r) = lo => dlo <= dhi
        /\ Mag(r) = hi => dhi <= dlo

\* C19 amended: float(narrow_type(x)) is x when x is on the narrow format's
\* grid.  Otherwise it is, for the two fp8 formats, the grid point nearest to
\* x, and for bfloat16 x with its low 16 bits dropped: the neighbouring
\* bfloat16 value toward zero, whichever neighbour is closer.
C19_Bfloat16TruncatesFp8Nearest ==
    /\ Bfloat16RoundTrip =>
        /\ ~Failed
        /\ \A i \in 1..Len(call.origin.data) :
            LET x == call.origin.data[i]
                r == outcome.ret.data[i]
            IN  /\ r.k = "bits"
                /\ Low16(r) = 0
                /\ Up16(r) = Up16(x)
                /\ Low16(x) = 0 => r = x
    /\ Fp8RoundTrip =>
        /\ ~Failed
        /\ \A i \in 1..Len(call.origin.data) :
            LET x == call.origin.data[i]
                r == outcome.ret.data[i]
            IN  /\ r.k = "bits"
                /\ NearestOnGrid(x.b, r.b, call.input.dtype)

C19_Witness ==
    /\ Bfloat16RoundTrip
    /\ Len(call.origin.data) = 2
    /\ call.origin.data[1] = BitsElem(<<1, 0, 128, 63>>)
    /\ outcome.ret.data[1] = BitsElem(<<0, 0, 128, 63>>)
    /\ call.origin.data[2] = BitsElem(<<0, 192, 128, 63>>)
    /\ outcome.ret.data[2] = BitsElem(<<0, 0, 128, 63>>)

TransposeDone == pc = "done" /\ call.op = "transpose"

\* The element types the kernel mapped its arrays at during the call.
MappedAt == {outcome.events[i].elt : i \in EventsOf("map")}

\* The unsigned integer type of a byte width.
UnsignedOfBytes(n) ==
    CASE n = 1 -> "uint8_t"
      [] n = 2 -> "uint16_t"
      [] n = 4 -> "uint32_t"
      [] n = 8 -> "uint64_t"

\* C21: transpose on a dtype that is not byte aligned fails with
\* invalid-arguments (the byte-alignment message) before anything else
\* happens; on a byte-aligned dtype of 1, 2, 4 or 8 bytes it runs the kernel
\* at the unsigned integer type of exactly that width, whatever the class or
\* signedness of the dtype; on any other byte count it fails with
\* invalid-arguments (the size message).
C21_MovementDispatch ==
    TransposeDone =>
        LET d == call.input.dtype
            bytes == bit_count(d) \div 8
        IN  IF bit_count(d) % 8 # 0
            THEN /\ Failed
                 /\ outcome.msg = MsgMovementNotAligned
                 /\ outcome.events = <<ThrowEvent>>
            ELSE IF bytes \in {1, 2, 4, 8}
            THEN /\ ~Failed
                 /\ MappedAt = {UnsignedOfBytes(bytes)}
                 /\ outcome.ret.dtype = d
                 /\ outcome.ret.data = call.input.data
            ELSE /\ Failed
                 /\ outcome.msg = MsgMovementSize
                 /\ outcome.events = <<ThrowEvent>>

C21_Witness ==
    /\ TransposeDone
    /\ call.input.dtype = "float16"
    /\ ~Failed
    /\ MappedAt = {"uint16_t"}

TempIds == <<TempLhsId, TempRhsId>>

\* The allocations of the intermediate for operand k (1 = lhs, 2 = rhs).
TempAllocs(k) ==
    {i \in EventsOf("alloc") : outcome.events[i].id = TempIds[k]}

\* C22: in add / subtract / multiply / divide an array operand is converted
\* exactly when its dtype differs from the promotion dtype (in a call that
\* throws, only operands that differ were converted); each conversion
\* allocates one fresh intermediate of the promotion dtype that is not
\* device-visible whatever the caller asked; the array returned is never an
\* intermediate; and nothing is written to the caller's operand arrays.
C22_OperandConversion ==
    (ElementwiseDone /\ outcome.msg # MsgNoArrayOperand) =>
        LET promoted == PromoteArithmeticTypes(OperandDType(call.lhs),
                                               OperandDType(call.rhs))
            differs(k) == /\ Operands[k].isarray
                          /\ Operands[k].arr.dtype # promoted
        IN  /\ \A k \in 1..2 :
                /\ TempAllocs(k) # {} => differs(k)
                /\ (~Failed /\ differs(k)) => Cardinality(TempAllocs(k)) = 1
                /\ \A i \in TempAllocs(k) :
                    /\ ~outcome.events[i].visible
                    /\ outcome.events[i].dtype = promoted
                    /\ outcome.events[i].shape = Len(Operands[k].arr.data)
            /\ \A i \in 1..Len(outcome.temps) :
                /\ ~outcome.temps[i].visible
                /\ outcome.temps[i].id \notin {"lhs", "rhs", "out"}
                /\ outcome.temps[i].id # outcome.ret.id
            /\ ~Failed =>
                /\ outcome.ret.id \notin {TempLhsId, TempRhsId}
                /\ Len(outcome.temps)
                    = Cardinality({k \in 1..2 : differs(k)})
            /\ \A i \in EventsOf("write") :
                outcome.events[i].id \notin {"lhs", "rhs"}

C22_Witness ==
    /\ ElementwiseDone
    /\ ~Failed
    /\ call.device_visible
    /\ call.lhs.isarray /\ call.lhs.arr.dtype = "int8"
    /\ call.rhs.isarray /\ call.rhs.arr.dtype = "float32"
    /\ Len(outcome.temps) = 1
    /\ outcome.temps[1].id = TempLhsId
    /\ ~outcome.temps[1].visible
    /\ outcome.ret.visible

Bfloat16Done == pc = "done" /\ call.op = "bfloat16_t"

\* C23: bfloat16_t(f) keeps exactly the upper 16 bits of f (the low 16 are
\* discarded) and float(v) has v in its upper half and zero low bits; hence
\* bfloat16_t(float(v)) = v for every one of the 65536 patterns v, and
\* float(bfloat16_t(f)) = f for every f whose low 16 bits are zero.
C23_Bfloat16BitMoves ==
    Bfloat16Done =>
        LET f == call.input.data[1].b
            v == outcome.temps[1].data[1].b
            w == outcome.ret.data[1].b
            v2 == outcome.temps[2].data[1].b
        IN  /\ Len(v) = 2
            /\ v[1] = f[3] /\ v[2] = f[4]
            /\ Len(w) = 4
            /\ w[1] = 0 /\ w[2] = 0 /\ w[3] = v[1] /\ w[4] = v[2]
            /\ v2 = v
            /\ (f[1] = 0 /\ f[2] = 0) => w = f

C23_Witness ==
    /\ Bfloat16Done
    /\ call.input.data[1].b = <<0, 192, 128, 63>>
    /\ outcome.temps[1].data[1].b = <<128, 63>>
    /\ outcome.ret.data[1].b = <<0, 0, 128, 63>>
    /\ outcome.temps[2] = [outcome.temps[1] EXCEPT !.id = "v2"]

\* C24: the fourteen numeric dtypes are closed under promotion, so add /
\* subtract / multiply / divide on two arrays of numeric dtypes computes a
\* numeric promotion dtype and does not fail: not in converting an operand
\* (unsupported input, invalid output dtype) and not in the final dispatch.
C24_ClosedUnderPromotion ==
    (/\ ElementwiseDone
     /\ call.lhs.isarray /\ call.lhs.arr.dtype \in NumericDTypes
     /\ call.rhs.isarray /\ call.rhs.arr.dtype \in NumericDTypes) =>
        /\ PromoteArithmeticTypes(call.lhs.arr.dtype, call.rhs.arr.dtype)
            \in NumericDTypes
        /\ outcome.dtype \in NumericDTypes
        /\ ~Failed
        /\ outcome.msg \notin {MsgNearestUnsupported, MsgConvertInvalidOutput,
                               MsgElementwiseUnsupported}
        /\ outcome.ret.dtype = outcome.dtype

C24_Witness ==
    /\ ElementwiseDone
    /\ call.lhs.isarray /\ call.lhs.arr.dtype = "uint64"
    /\ call.rhs.isarray /\ call.rhs.arr.dtype = "int8"
    /\ ~Failed
    /\ outcome.ret.dtype = "int64"
    /\ Len(outcome.temps) = 2

\* The values of an integer dtype of n bits run from -2^(n-1) to 2^(n-1) - 1
\* when it is signed and from 0 to 2^n - 1 when it is unsigned; MaxExp is
\* the exponent e of the largest value 2^e - 1.
MaxExp(d) == IF is_unsigned(d) THEN bit_count(d) ELSE bit_count(d) - 1

\* Every value of the integer dtype d is a value of the integer dtype r.
Covers(r, d) ==
    /\ MaxExp(d) <= MaxExp(r)
    /\ ~is_unsigned(d) => (~is_unsigned(r) /\ bit_count(d) <= bit_count(r))

\* C25: for two present integer dtypes the dtype promote returns holds
\* every value of both, except when one is uint64 and the other is signed:
\* the result is then int64, which does not hold the upper half of uint64.
C25_PromotedIntegerCoversOperands ==
    (/\ PromoteDone
     /\ BothPresent
     /\ is_integer(call.lhs_dtype)
     /\ is_integer(call.rhs_dtype)) =>
        LET l == call.lhs_dtype
            r == call.rhs_dtype
            p == outcome.dtype
        IN  /\ ~Failed
            /\ is_integer(p)
            /\ IF "uint64" \in {l, r} /\ (~is_unsigned(l) \/ ~is_unsigned(r))
               THEN p = "int64" /\ ~Covers(p, "uint64")
               ELSE Covers(p, l) /\ Covers(p, r)

C25_Witness ==
    /\ PromoteDone
    /\ call.lhs_dtype = "int8"
    /\ call.rhs_dtype = "uint32"
    /\ outcome.dtype = "int64"

\* The two dtypes have the same rank: the same class and the same width.
SameRank(l, r) == ClassOf(l) = ClassOf(r) /\ bit_count(l) = bit_count(r)

\* C26: for two present dtypes a and b, promote(a, b) = promote(b, a)
\* whenever their ranks differ or the signed/unsigned escalation applies;
\* the two orders differ only for distinct dtypes of equal rank without
\* escalation, where each order returns its left operand (float16 and
\* bfloat16, float8_e4m3fn and float8_e4m3fnuz).
C26_CommutativeExceptTies ==
    (PromoteDone /\ BothPresent) =>
        LET l == call.lhs_dtype
            r == call.rhs_dtype
            swapped == PromoteArithmeticTypes(r, l)
        IN  /\ (~SameRank(l, r) \/ Escalates(l, r)) => outcome.dtype = swapped
            /\ outcome.dtype # swapped =>
                /\ l # r
                /\ SameRank(l, r)
                /\ ~Escalates(l, r)
                /\ outcome.dtype = l
                /\ swapped = r
            /\ ({l, r} \in {{"float16", "bfloat16"},
                            {"float8_e4m3fn", "float8_e4m3fnuz"}}
                /\ l # r) => outcome.dtype # swapped

C26_Witness ==
    /\ PromoteDone
    /\ call.lhs_dtype = "float16"
    /\ call.rhs_dtype = "bfloat16"
    /\ outcome.dtype = "float16"
    /\ PromoteArithmeticTypes("bfloat16", "float16") = "bfloat16"

====
